---- MODULE Spec2Model ----
(***************************************************************************)
(* A model of the columnar profiling and rule-validation engine of         *)
(* DataIngestionAgent:                                                     *)
(*   src/src/analysis/core/data_analyzer.py      (DataAnalyzer)            *)
(*   src/src/analysis/processors/stats_processor.py                        *)
(*   src/src/analysis/utils/data_transformers.py                           *)
(*   src/src/validation/data_validator.py                                  *)
(*                                                                         *)
(* Data representation.  A cell is its text, a sequence of one-character   *)
(* strings, or the missing marker NULL.  A column (a pandas / polars       *)
(* series) is a run-length sequence of [v |-> cell, n |-> rows]: a column  *)
(* written row by row has runs of one row.  Percentages, which the code    *)
(* rounds to two decimals, are integers counting hundredths of a percent   *)
(* (50.0% is 5000).                                                        *)
(***************************************************************************)
EXTENDS Integers, Sequences, FiniteSets, TLC

VARIABLES
    \* ---- DataAnalyzer.analyze_data_quality (one call) ----
    self_chunk_size, \* self.chunk_size, as the constructor stored it
    data,            \* the DataFrame handed to the call: [dtype, runs] per column
    pc,              \* position of the calling thread
    total_rows,      \* local total_rows
    chunk_size,      \* local chunk_size
    chunks,          \* local chunks: sequence of <<start_idx, end_idx>>
    task,            \* state of each submitted future
    yielded,         \* the futures as_completed has handed to the loop
    attempts,        \* how many times _process_chunk ran for each chunk
    chunk_metrics,   \* local chunk_metrics, in the order as_completed yielded
    retained,        \* the chunk index behind each entry of chunk_metrics
    processed_rows,  \* local processed_rows
    metrics,         \* the dict the call returns
    \* ---- compute_stats applied to one series ----
    series,          \* the series handed to compute_stats
    stats,           \* what compute_stats returned
    stats_pc,
    \* ---- detect_quality_issues applied again and again to one metrics dict ----
    dq_metrics,      \* the metrics dict
    dq_runs,         \* number of calls so far
    dq_first,        \* data_quality_issues after the first call
    \* ---- validate_data (one call) ----
    v_df,            \* the caller's DataFrame: its column names, in order
    v_rules0,        \* the rule list as the caller built it
    v_shared,        \* the local df is the caller's DataFrame object
    v_columns,       \* columns of the local df
    v_data,          \* the column behind each name of the local df
    v_suite,         \* the expectation suite
    v_result,        \* what the call returned or raised
    v_mapping,       \* local column_mapping, in insertion order
    v_rules,         \* the rule list (the caller's list, updated in place)
    v_pc,
    \* ---- convert_to_decimal applied to one column ----
    dec_written,     \* how each value of the column was written
    dec_column,      \* the column handed to convert_to_decimal
    dec_result,      \* the series it returned
    dec_pc,
    \* ---- one call of a function of data_validator ----
    fn_name,         \* the function called
    fn_args,         \* its arguments
    fn_result,       \* what it returned, or that it raised
    fn_pc

vars == <<data, pc, total_rows, chunk_size, chunks, task, yielded, attempts,
          chunk_metrics, retained, processed_rows, metrics,
          series, stats, stats_pc, dq_metrics, dq_runs, dq_first,
          v_df, v_rules0, v_columns, v_mapping, v_rules, v_pc,
          v_shared, v_data, v_suite, v_result,
          self_chunk_size, dec_written, dec_column, dec_result, dec_pc,
          fn_name, fn_args, fn_result, fn_pc>>

analyzerVars == <<self_chunk_size, data, pc, total_rows, chunk_size, chunks, task, yielded, attempts,
                  chunk_metrics, retained, processed_rows, metrics>>
statsVars == <<series, stats, stats_pc>>
detectVars == <<dq_metrics, dq_runs, dq_first>>
validateVars == <<v_df, v_rules0, v_columns, v_mapping, v_rules, v_pc,
                  v_shared, v_data, v_suite, v_result>>
decimalVars == <<dec_written, dec_column, dec_result, dec_pc>>
functionVars == <<fn_name, fn_args, fn_result, fn_pc>>

----------------------------------------------------------------------------
(* Generic helpers *)

Min(a, b) == IF a < b THEN a ELSE b
Max(a, b) == IF a > b THEN a ELSE b

RECURSIVE SumSeq(_)
SumSeq(s) == IF s = <<>> THEN 0 ELSE Head(s) + SumSeq(Tail(s))

\* dict.get(key, default)
Get(d, k, default) == IF k \in DOMAIN d THEN d[k] ELSE default

\* The missing value (None / NaN / polars null).  No text equals it: a text
\* holds one-character strings only.
NULL == <<"NULL">>

\* The integer nearest to n / d, ties to even (Python's round and format).
RoundDiv(n, d) ==
    LET q == n \div d
        r == n % d
    IN  IF 2 * r > d \/ (2 * r = d /\ q % 2 = 1) THEN q + 1 ELSE q

\* round(n / d * 100, 2), in hundredths of a percent.
Round2(n, d) == RoundDiv(n * 10000, d)

\* f"{n / d * 100:.1f}", in tenths of a percent.
Format1(n, d) == RoundDiv(n * 1000, d)

----------------------------------------------------------------------------
(* Series: len, null_count, n_unique, slicing *)

\* len(series)
SeriesLen(runs) == SumSeq([i \in DOMAIN runs |-> runs[i].n])

\* series.null_count()
null_count(runs) ==
    SumSeq([i \in DOMAIN runs |-> IF runs[i].v = NULL THEN runs[i].n ELSE 0])

\* The distinct values of the series, the null among them when it has one.
Distinct(runs) == {runs[i].v : i \in {j \in DOMAIN runs : runs[j].n > 0}}

\* series.n_unique(): polars counts null as one more distinct value.
n_unique(runs) == Cardinality(Distinct(runs))

\* Number of rows holding v.
CountOf(runs, v) ==
    SumSeq([i \in DOMAIN runs |-> IF runs[i].v = v THEN runs[i].n ELSE 0])

\* data.iloc[start_idx:end_idx] of one column whose first run starts at row off.
RECURSIVE SliceFrom(_, _, _, _)
SliceFrom(runs, off, s, e) ==
    IF runs = <<>> THEN <<>>
    ELSE LET r  == Head(runs)
             lo == Max(s, off)
             hi == Min(e, off + r.n)
         IN  (IF hi > lo THEN <<[v |-> r.v, n |-> hi - lo]>> ELSE <<>>)
             \o SliceFrom(Tail(runs), off + r.n, s, e)

iloc(runs, s, e) == SliceFrom(runs, 0, s, e)

----------------------------------------------------------------------------
(* Cell texts.  A timestamp is written <day>:<clock>, clock "0" being       *)
(* midnight.                                                               *)

RECURSIVE Before(_, _)
Before(text, ch) ==
    IF text = <<>> \/ Head(text) = ch THEN <<>>
    ELSE <<Head(text)>> \o Before(Tail(text), ch)

RECURSIVE After(_, _)
After(text, ch) ==
    IF text = <<>> THEN <<>>
    ELSE IF Head(text) = ch THEN Tail(text) ELSE After(Tail(text), ch)

\* value.strftime("%Y-%m-%d")
strftime_date(text) == Before(text, ":")
\* value.strftime("%H:%M:%S") != "00:00:00"
has_time_component(text) == After(text, ":") # <<"0">>

----------------------------------------------------------------------------
(* stats_processor.compute_stats *)

\* How many sample values compute_stats keeps: head(10).
SampleLimit == 10

\* series.drop_nulls().unique().head(10), formatted.  unique() fixes no order,
\* so the samples are kept as a set; with more than SampleLimit distinct
\* values any SampleLimit of them may come out.
sample_values(dtype, runs) ==
    LET nonnull == Distinct(runs) \ {NULL}
        kept == IF Cardinality(nonnull) <= SampleLimit THEN nonnull
                ELSE CHOOSE S \in SUBSET nonnull : Cardinality(S) = SampleLimit
    IN  {IF dtype = "Date" THEN strftime_date(v) ELSE v : v \in kept}

\* pandas value_counts() drops missing values; keys are str(value).
value_counts(dtype, runs) ==
    LET key(v) == IF dtype = "Date" THEN strftime_date(v) ELSE v
        nonnull == Distinct(runs) \ {NULL}
        keys == {key(v) : v \in nonnull}
        cnt(k) == SumSeq([i \in DOMAIN runs |->
                     IF runs[i].v # NULL /\ key(runs[i].v) = k THEN runs[i].n ELSE 0])
    IN  [k \in keys |-> [count |-> cnt(k),
                         percentage |-> Round2(cnt(k), SeriesLen(runs))]]

\* compute_stats(series).  The two divisions of lines 52 and 54 raise
\* ZeroDivisionError on an empty series and on a series without a non-null
\* value; the except clause turns that into {"error": ...}.
compute_stats(name, dtype, runs) ==
    LET len   == SeriesLen(runs)
        nulls == null_count(runs)
    IN  IF len = 0 \/ len - nulls = 0
        THEN [error |-> "division by zero"]
        ELSE [column_name       |-> name,
              data_type         |-> dtype,
              total_rows        |-> len,
              null_count        |-> nulls,
              null_percentage   |-> Round2(nulls, len),
              unique_count      |-> n_unique(runs),
              unique_percentage |-> Round2(n_unique(runs), len - nulls),
              sample_values     |-> sample_values(dtype, runs),
              value_counts      |-> value_counts(dtype, runs)]

----------------------------------------------------------------------------
(* data_transformers: flatten_json, optimize_dtypes, to_polars.             *)
(* A DataFrame is [columns |-> <<names>>, dtypes |-> [name -> dtype],        *)
(* values |-> [name -> runs]].                                             *)

DigitValue(ch) ==
    CASE ch = "0" -> 0 [] ch = "1" -> 1 [] ch = "2" -> 2 [] ch = "3" -> 3
      [] ch = "4" -> 4 [] ch = "5" -> 5 [] ch = "6" -> 6 [] ch = "7" -> 7
      [] ch = "8" -> 8 [] ch = "9" -> 9

\* The number a text of digits writes.
RECURSIVE ParseInt(_)
ParseInt(text) ==
    IF text = <<>> THEN 0
    ELSE 10 * ParseInt(SubSeq(text, 1, Len(text) - 1)) + DigitValue(text[Len(text)])

NumberValues(runs) == {ParseInt(v) : v \in Distinct(runs) \ {NULL}}
HasNull(runs) == NULL \in Distinct(runs)
AllNull(runs) == Distinct(runs) \subseteq {NULL}

\* flatten_json(df): a column is rewritten only when one of its first ten
\* non-null values is a dict or a list; no cell here is one, so every column is
\* kept (has_nested is False, line 32) and a copy of df comes back.
flatten_json(df) == df

UInt8Max == 255
UInt16Max == 65535
Int32Min == (-2147483647) - 1
Int32Max == 2147483647

\* optimize_dtypes, one column (numbers of the model are whole and >= 0).
optimized_dtype(dtype, runs) ==
    IF dtype \in {"int64", "float64"}
    THEN IF AllNull(runs) THEN dtype
         ELSE IF ~HasNull(runs)
              THEN LET col_max == CHOOSE m \in NumberValues(runs) :
                                      \A x \in NumberValues(runs) : x <= m
                   IN  IF col_max <= UInt8Max THEN "uint8"
                       ELSE IF col_max <= UInt16Max THEN "uint16"
                       ELSE "uint32"
              ELSE dtype
    ELSE IF dtype = "object"
    THEN IF AllNull(runs) THEN dtype
         \* nunique / len(df) < 0.5
         ELSE IF 2 * Cardinality(Distinct(runs) \ {NULL}) < SeriesLen(runs)
              THEN "category" ELSE dtype
    ELSE dtype

optimize_dtypes(df) ==
    [df EXCEPT !.dtypes =
        [c \in DOMAIN df.dtypes |-> optimized_dtype(df.dtypes[c], df.values[c])]]

\* to_polars, the schema entry of one column (lines 91-133).
\* select_dtypes(include=['int', 'float']) selects int64 and float64 only.
polars_dtype(dtype, runs) ==
    IF dtype \in {"int64", "float64"}
    THEN IF HasNull(runs) THEN "Float64"
         ELSE IF \A x \in NumberValues(runs) : x >= Int32Min /\ x <= Int32Max
              THEN "Int32" ELSE "Int64"
    ELSE IF dtype = "datetime64[ns]"
    THEN IF \A v \in Distinct(runs) \ {NULL} : ~has_time_component(v)
         THEN "Date" ELSE "Datetime"
    ELSE "Utf8"

\* to_polars(df): missing values stay missing (from_pandas maps NaN to null).
to_polars(df) ==
    [df EXCEPT !.dtypes =
        [c \in DOMAIN df.dtypes |-> polars_dtype(df.dtypes[c], df.values[c])]]

\* data.iloc[start_idx:end_idx].copy()
df_iloc(df, s, e) ==
    [df EXCEPT !.values = [c \in DOMAIN df.values |-> iloc(df.values[c], s, e)]]

----------------------------------------------------------------------------
(* DataAnalyzer._analyze_chunk, _process_chunk *)

\* The values of the first k non-null rows: drop_nulls().head(k).
RECURSIVE HeadNonNull(_, _)
HeadNonNull(runs, k) ==
    IF runs = <<>> \/ k <= 0 THEN {}
    ELSE LET r == Head(runs)
         IN  IF r.v = NULL \/ r.n = 0 THEN HeadNonNull(Tail(runs), k)
             ELSE {r.v} \cup HeadNonNull(Tail(runs), k - r.n)

\* "int", "float", "decimal" or "numeric" occurs in str(dtype).lower()
is_sql_numeric(dtype) ==
    dtype \in {"int64", "float64", "uint8", "uint16", "uint32", "float32"}

TimeSample == 10

\* The schema_info bucket _analyze_chunk puts a column in (lines 68-89).
bucket(pl_dtype, runs, original_dtype) ==
    IF pl_dtype \in {"Int64", "Int32", "Float64", "Float32"} THEN "numeric_columns"
    ELSE IF pl_dtype = "Datetime"
    THEN IF \E v \in HeadNonNull(runs, TimeSample) : has_time_component(v)
         THEN "datetime_columns" ELSE "date_columns"
    ELSE IF pl_dtype = "Date" THEN "date_columns"
    ELSE IF is_sql_numeric(original_dtype) THEN "numeric_columns"
    ELSE "string_columns"

schema_categories ==
    {"numeric_columns", "string_columns", "date_columns", "datetime_columns",
     "nested_columns", "array_columns", "flattened_columns"}

RECURSIVE FilterSeq(_, _)
FilterSeq(s, S) ==
    IF s = <<>> THEN <<>>
    ELSE (IF Head(s) \in S THEN <<Head(s)>> ELSE <<>>) \o FilterSeq(Tail(s), S)

_analyze_chunk(pl_data, original_dtypes) ==
    LET b(c) == bucket(pl_data.dtypes[c], pl_data.values[c], Get(original_dtypes, c, ""))
        cols == {pl_data.columns[i] : i \in DOMAIN pl_data.columns}
    IN  [schema_info |->
            [cat \in schema_categories |->
                FilterSeq(pl_data.columns, {c \in cols : b(c) = cat})],
         column_stats |->
            [c \in cols |-> compute_stats(c, pl_data.dtypes[c], pl_data.values[c])],
         data_quality_issues |-> <<>>]

\* _process_chunk when nothing raises.
_process_chunk(df, start_idx, end_idx) ==
    _analyze_chunk(to_polars(df_iloc(df, start_idx, end_idx)), df.dtypes)

----------------------------------------------------------------------------
(* DataAnalyzer._combine_chunk_metrics.  A dict is a function on its keys;  *)
(* the empty dict is <<>>.                                                 *)

EmptyDict == <<>>

\* Iteration order of a dict or set: fixed for a given object, otherwise
\* arbitrary.
KeyOrder(S) ==
    CHOOSE s \in [1..Cardinality(S) -> S] : {s[i] : i \in DOMAIN s} = S

\* Lines 139-165: the merged stats of one column.  col_chunks are the stats of
\* the column in the chunks that have it, in chunk_metrics order.
combine_column(col_chunks) ==
    LET total        == SumSeq([i \in DOMAIN col_chunks |-> Get(col_chunks[i], "total_rows", 0)])
        nulls        == SumSeq([i \in DOMAIN col_chunks |-> Get(col_chunks[i], "null_count", 0)])
        uniques      == SumSeq([i \in DOMAIN col_chunks |-> Get(col_chunks[i], "unique_count", 0)])
        updated      == [total_rows |-> total, null_count |-> nulls, unique_count |-> uniques]
                        @@ col_chunks[1]
        with_null    == IF total > 0
                        THEN [null_percentage |-> Round2(nulls, total)] @@ updated
                        ELSE updated
    IN  IF total > 0 /\ total - nulls > 0
        THEN [unique_percentage |-> Round2(uniques, total - nulls)] @@ with_null
        ELSE with_null

PreservedKeys == {"schema", "table_name", "database", "columns", "schema_info"}

_combine_chunk_metrics(cm) ==
    IF cm = <<>> THEN EmptyDict
    ELSE
    LET first == cm[1]
        base ==
            [total_rows          |-> SumSeq([i \in DOMAIN cm |-> Get(cm[i], "total_rows", 0)]),
             total_columns       |-> Get(first, "total_columns", 0),
             data_quality_issues |-> <<>>,
             analysis_info       |-> Get(first, "analysis_info", EmptyDict)]
        metadata == IF "metadata" \in DOMAIN first
                    THEN [metadata |-> first.metadata] ELSE EmptyDict
        preserved == [k \in PreservedKeys \cap DOMAIN first |-> first[k]]
        \* lines 120-131, taken only when the first chunk has no schema_info
        merged_schema ==
            IF "schema_info" \in DOMAIN first THEN EmptyDict
            ELSE [schema_info |->
                    [cat \in schema_categories |->
                        KeyOrder(UNION {
                            LET si == Get(cm[i], "schema_info", EmptyDict)
                                l  == Get(si, cat, <<>>)
                            IN  {l[j] : j \in DOMAIN l} : i \in DOMAIN cm})]]
        all_columns == UNION {DOMAIN Get(cm[i], "column_stats", EmptyDict) : i \in DOMAIN cm}
        having(col) == {i \in DOMAIN cm : col \in DOMAIN Get(cm[i], "column_stats", EmptyDict)}
        col_chunks(col) ==
            LET idx == FilterSeq([i \in DOMAIN cm |-> i], having(col))
            IN  [k \in DOMAIN idx |-> cm[idx[k]].column_stats[col]]
    IN  [column_stats |-> [col \in all_columns |-> combine_column(col_chunks(col))]]
        @@ preserved @@ metadata @@ merged_schema @@ base

----------------------------------------------------------------------------
(* stats_processor.detect_quality_issues *)

DigitChars == {"0", "1", "2", "3", "4", "5", "6", "7", "8", "9"}
UpperChars == {"A", "B", "C", "D", "E", "F", "G", "H", "I", "J", "K", "L", "M",
               "N", "O", "P", "Q", "R", "S", "T", "U", "V", "W", "X", "Y", "Z"}
LowerChars == {"a", "b", "c", "d", "e", "f", "g", "h", "i", "j", "k", "l", "m",
               "n", "o", "p", "q", "r", "s", "t", "u", "v", "w", "x", "y", "z"}
SpaceChars == {" "}

AllDigits(text) == \A i \in DOMAIN text : text[i] \in DigitChars

\* re.compile(r'^-?\d*\.?\d+$').match(s)
numeric_pattern(text) ==
    LET body == IF text # <<>> /\ Head(text) = "-" THEN Tail(text) ELSE text
    IN  \/ body # <<>> /\ AllDigits(body)
        \/ \E k \in DOMAIN body :
              /\ body[k] = "."
              /\ AllDigits(SubSeq(body, 1, k - 1))
              /\ k < Len(body)
              /\ AllDigits(SubSeq(body, k + 1, Len(body)))

\* str.isupper(), str.islower()
isupper(text) ==
    /\ \E i \in DOMAIN text : text[i] \in UpperChars
    /\ \A i \in DOMAIN text : text[i] \notin LowerChars
islower(text) ==
    /\ \E i \in DOMAIN text : text[i] \in LowerChars
    /\ \A i \in DOMAIN text : text[i] \notin UpperChars

\* re.compile(r'[^a-zA-Z0-9\s]').search(s)
special_char_pattern(text) ==
    \E i \in DOMAIN text :
        text[i] \notin (DigitChars \cup UpperChars \cup LowerChars \cup SpaceChars)

NullThreshold == 20
HighNullThreshold == 50
CardinalityThreshold == 90

\* A slip: the null thresholds are inclusive.
column_issues_inclusive(col, col_stats, schema_info, rows) ==
    LET nulls == Get(col_stats, "null_count", 0)
    IN  IF nulls > 0 /\ rows > 0 /\ nulls * 100 >= NullThreshold * rows
        THEN <<[key   |-> <<"high_null", col>>,
                issue |-> [column      |-> col,
                           issue_type  |-> "high_null_percentage",
                           description |-> <<"% null values", Format1(nulls, rows)>>,
                           severity    |-> IF nulls * 100 >= HighNullThreshold * rows
                                           THEN "high" ELSE "medium"]]>>
        ELSE <<>>

\* The issues lines 104-180 would append for one column, each with its
\* issue_key, in order.
column_issues(col, col_stats, schema_info, rows) ==
    LET nulls       == Get(col_stats, "null_count", 0)
        samples     == Get(col_stats, "sample_values", {})
        str_samples == samples \ {NULL}
        in_bucket(b) == \E i \in DOMAIN Get(schema_info, b, <<>>) : schema_info[b][i] = col
        numeric_count == Cardinality({s \in str_samples : numeric_pattern(s)})
        uniques     == Get(col_stats, "unique_count", 0)
        non_null    == rows - nulls
        high_null ==
            IF nulls > 0 /\ rows > 0 /\ nulls * 100 > NullThreshold * rows
            THEN <<[key   |-> <<"high_null", col>>,
                    issue |-> [column      |-> col,
                               issue_type  |-> "high_null_percentage",
                               description |-> <<"% null values", Format1(nulls, rows)>>,
                               severity    |-> IF nulls * 100 > HighNullThreshold * rows
                                               THEN "high" ELSE "medium"]]>>
            ELSE <<>>
        mixed ==
            IF in_bucket("string_columns") /\ Cardinality(str_samples) > 0
               /\ 0 < numeric_count /\ numeric_count < Cardinality(str_samples)
            THEN <<[key   |-> <<"mixed_types", col>>,
                    issue |-> [column      |-> col,
                               issue_type  |-> "mixed_data_types",
                               description |-> <<"mix of numeric and non-numeric values", 0>>,
                               severity    |-> "medium"]]>>
            ELSE <<>>
        casing ==
            IF in_bucket("string_columns")
               /\ (\E s \in str_samples : isupper(s)) /\ (\E s \in str_samples : islower(s))
            THEN <<[key   |-> <<"inconsistent_case", col>>,
                    issue |-> [column      |-> col,
                               issue_type  |-> "inconsistent_casing",
                               description |-> <<"mix of upper and lower case values", 0>>,
                               severity    |-> "low"]]>>
            ELSE <<>>
        special ==
            IF in_bucket("string_columns") /\ (\E s \in str_samples : special_char_pattern(s))
            THEN <<[key   |-> <<"special_chars", col>>,
                    issue |-> [column      |-> col,
                               issue_type  |-> "special_characters",
                               description |-> <<"special characters", 0>>,
                               severity    |-> "low"]]>>
            ELSE <<>>
        cardinality ==
            IF ~in_bucket("numeric_columns") /\ uniques > 0 /\ non_null > 0
               /\ uniques * 100 > CardinalityThreshold * non_null
            THEN <<[key   |-> <<"high_cardinality", col>>,
                    issue |-> [column      |-> col,
                               issue_type  |-> "high_cardinality",
                               description |-> <<"% unique values", Format1(uniques, non_null)>>,
                               severity    |-> "medium"]]>>
            ELSE <<>>
    IN  high_null \o mixed \o casing \o special \o cardinality

RECURSIVE ConcatAll(_)
ConcatAll(ss) == IF ss = <<>> THEN <<>> ELSE Head(ss) \o ConcatAll(Tail(ss))

\* Appends each candidate whose issue_key is not in processed_issues and adds
\* the key to the set.
RECURSIVE append_new(_, _, _)
append_new(issues, processed_issues, candidates) ==
    IF candidates = <<>> THEN issues
    ELSE LET c == Head(candidates)
         IN  IF c.key \in processed_issues
             THEN append_new(issues, processed_issues, Tail(candidates))
             ELSE append_new(Append(issues, c.issue), processed_issues \cup {c.key},
                             Tail(candidates))

\* A slip: the issues of an earlier call are kept.
initial_issues_kept(m) == Get(m, "data_quality_issues", <<>>)

\* The list data_quality_issues starts from: lines 86-90 reset it whether or not
\* the key is present.
initial_issues(m) == <<>>

\* detect_quality_issues(metrics): the metrics dict after the call.
detect_quality_issues(m) ==
    LET rows == Get(m, "total_rows", 0)
        column_stats == Get(m, "column_stats", EmptyDict)
        schema_info  == Get(m, "schema_info", EmptyDict)
        order == KeyOrder(DOMAIN column_stats)
    IN  IF rows = 0
        THEN [data_quality_issues |-> <<>>] @@ m
        ELSE [data_quality_issues |->
                append_new(initial_issues(m), {},
                    ConcatAll([i \in DOMAIN order |->
                        column_issues(order[i], column_stats[order[i]], schema_info, rows)]))]
             @@ m

----------------------------------------------------------------------------
(* DataAnalyzer.analyze_data_quality *)

\* DataAnalyzer.__init__, line 18: the default of chunk_size
DefaultChunkSize == 50000
\* tests/test_quality_check.py, line 12: DataAnalyzer(sample_size=10, chunk_size=5)
QualityCheckChunkSize == 5

MinChunkSize == 10000
MaxChunkSize == 100000
ChunkDivisor == 10
MaxWorkers == 8

\* len(data)
RowCount(df) ==
    IF df.columns = <<>> THEN 0 ELSE SeriesLen(df.values[df.columns[1]])

\* line 188: min(100000, max(10000, total_rows // 10))
\* A slip: the default of the constructor is taken as the chunk size.
default_chunk_size(rows) == DefaultChunkSize

dynamic_chunk_size(rows) ==
    Min(MaxChunkSize, Max(MinChunkSize, rows \div ChunkDivisor))

\* A slip: the end of the last chunk is not clamped to the row count.
chunk_end_unclamped(start_idx, size, rows) == start_idx + size

\* line 197
chunk_end(start_idx, size, rows) == Min(start_idx + size, rows)

\* lines 195-198: for start_idx in range(0, total_rows, chunk_size)
RECURSIVE chunks_from(_, _, _)
chunks_from(start_idx, size, rows) ==
    IF start_idx >= rows THEN <<>>
    ELSE <<<<start_idx, chunk_end(start_idx, size, rows)>>>>
         \o chunks_from(start_idx + size, size, rows)

make_chunks(rows, size) == chunks_from(0, size, rows)

\* data after lines 182 and 185
prepared(df) == optimize_dtypes(flatten_json(df))

None == [none |-> TRUE]

\* A slip: the result of a failed chunk is not tested.
truthy_unchecked(result) == TRUE

\* line 209, if chunk_result: None and the empty dict are falsy.
truthy(result) == result # None /\ result # EmptyDict

\* A slip: every row counts as processed.
analysis_info_all_rows ==
    [total_rows          |-> total_rows,
     processed_rows      |-> total_rows,
     processed_in_chunks |-> TRUE,
     parallel_processing |-> TRUE]

\* Lines 220-225
chunked_analysis_info ==
    [total_rows          |-> total_rows,
     processed_rows      |-> processed_rows,
     processed_in_chunks |-> TRUE,
     parallel_processing |-> TRUE]

\* Lines 187-205, large data set: the chunks are cut and one future per chunk
\* is submitted to the pool.
SubmitChunks ==
    /\ pc = "call"
    /\ LET rows == RowCount(data)
           size == dynamic_chunk_size(rows)
       IN  /\ rows > size
           /\ total_rows' = rows
           /\ chunk_size' = size
           /\ chunks' = make_chunks(rows, size)
           /\ task' = [i \in DOMAIN make_chunks(rows, size) |-> "queued"]
           /\ attempts' = [i \in DOMAIN make_chunks(rows, size) |-> 0]
    /\ yielded' = {}
    /\ chunk_metrics' = <<>>
    /\ retained' = <<>>
    /\ processed_rows' = 0
    /\ pc' = "as_completed"
    /\ UNCHANGED <<data, metrics, self_chunk_size, statsVars, detectVars,
                   validateVars, decimalVars, functionVars>>

\* ThreadPoolExecutor(max_workers=min(8, len(chunks))): a queued future can
\* start while fewer than max_workers run.
can_start(i) ==
    /\ pc = "as_completed"
    /\ task[i] = "queued"
    /\ Cardinality({j \in DOMAIN task : task[j] = "running"})
         < Min(MaxWorkers, Len(chunks))

is_running(i) == pc = "as_completed" /\ task[i] = "running"

\* as_completed yields each future once, when it is done.
can_yield(i) ==
    /\ pc = "as_completed"
    /\ task[i] \in {"finished", "returned_none"}
    /\ i \notin yielded

\* A slip: the loop ends at the first future.
some_yielded == pc = "as_completed" /\ yielded # {}

\* The loop of line 207 ends when every future has been yielded.
all_yielded == pc = "as_completed" /\ yielded = DOMAIN task

\* A pool thread takes a queued future.
WorkerStart(i) ==
    /\ can_start(i)
    /\ task' = [task EXCEPT ![i] = "running"]
    /\ attempts' = [attempts EXCEPT ![i] = @ + 1]
    /\ UNCHANGED <<data, pc, total_rows, chunk_size, chunks, yielded, chunk_metrics,
                   retained, processed_rows, metrics, self_chunk_size, statsVars, detectVars,
                   validateVars, decimalVars, functionVars>>

\* _process_chunk returns the chunk's metrics (line 46).
WorkerReturn(i) ==
    /\ is_running(i)
    /\ task' = [task EXCEPT ![i] = "finished"]
    /\ UNCHANGED <<data, pc, total_rows, chunk_size, chunks, yielded, attempts,
                   chunk_metrics, retained, processed_rows, metrics, self_chunk_size, statsVars, detectVars,
                   validateVars, decimalVars, functionVars>>

\* Something inside _process_chunk raises; it logs and returns None (line 49).
WorkerRaise(i) ==
    /\ is_running(i)
    /\ task' = [task EXCEPT ![i] = "returned_none"]
    /\ UNCHANGED <<data, pc, total_rows, chunk_size, chunks, yielded, attempts,
                   chunk_metrics, retained, processed_rows, metrics, self_chunk_size, statsVars, detectVars,
                   validateVars, decimalVars, functionVars>>

\* future.result() of a future that is done.
future_result(i) ==
    IF task[i] = "finished"
    THEN _process_chunk(prepared(data), chunks[i][1], chunks[i][2])
    ELSE None

\* One turn of the loop of line 207: as_completed yields a future that is done
\* and has not been yielded before.
NextCompleted(i) ==
    /\ can_yield(i)
    /\ IF truthy(future_result(i))
       THEN /\ chunk_metrics' = Append(chunk_metrics, future_result(i))
            /\ retained' = Append(retained, i)
            /\ processed_rows' = processed_rows + (chunks[i][2] - chunks[i][1])
       ELSE UNCHANGED <<chunk_metrics, retained, processed_rows>>
    /\ yielded' = yielded \cup {i}
    /\ UNCHANGED <<data, pc, total_rows, chunk_size, chunks, task, attempts, metrics,
                   self_chunk_size, statsVars, detectVars,
                   validateVars, decimalVars, functionVars>>

\* Lines 216-228 and 257: every future has been yielded; merge, add
\* analysis_info, detect the issues, return.
CombineAndReturn ==
    /\ all_yielded
    /\ metrics' = detect_quality_issues(
                     [analysis_info |-> chunked_analysis_info]
                     @@ _combine_chunk_metrics(chunk_metrics))
    /\ pc' = "returned"
    /\ UNCHANGED <<data, total_rows, chunk_size, chunks, task, yielded, attempts,
                   chunk_metrics, retained, processed_rows, self_chunk_size, statsVars, detectVars,
                   validateVars, decimalVars, functionVars>>

\* Lines 230-244 and 257, small data set: one pass over the whole frame.
AnalyzeWhole ==
    /\ pc = "call"
    /\ LET rows == RowCount(data)
           size == dynamic_chunk_size(rows)
           df   == prepared(data)
       IN  /\ rows <= size
           /\ total_rows' = rows
           /\ chunk_size' = size
           /\ metrics' = detect_quality_issues(
                            [analysis_info |->
                                [total_rows          |-> rows,
                                 processed_rows      |-> rows,
                                 processed_in_chunks |-> FALSE,
                                 parallel_processing |-> FALSE]]
                            @@ _analyze_chunk(to_polars(df), df.dtypes))
    /\ pc' = "returned"
    /\ UNCHANGED <<data, chunks, task, yielded, attempts, chunk_metrics, retained,
                   processed_rows, self_chunk_size, statsVars, detectVars,
                   validateVars, decimalVars, functionVars>>

\* A slip: the handler reports no row count.
error_result_without_rows(e, rows) ==
    [error |-> e,
     analysis_info |-> [total_rows |-> 0, processed_rows |-> 0, error_occurred |-> TRUE]]

\* Lines 248-255 and 261-268: what both exception handlers return.  total_rows
\* was bound at line 179, before anything that can raise.
error_result(e, rows) ==
    [error |-> e,
     analysis_info |-> [total_rows |-> rows, processed_rows |-> 0, error_occurred |-> TRUE]]

\* The exceptions of the model: to_polars re-raises what the conversion raised
\* (data_transformers.py, lines 150-156); the pool raises when no thread starts.
Exceptions == {"conversion failed", "can't start new thread"}

\* Lines 230-255, small data set, to_polars or the analysis raises: the inner
\* handler returns the error object.
AnalyzeWholeRaise ==
    /\ pc = "call"
    /\ LET rows == RowCount(data)
           size == dynamic_chunk_size(rows)
       IN  /\ rows <= size
           /\ total_rows' = rows
           /\ chunk_size' = size
           /\ metrics' = error_result("conversion failed", rows)
    /\ pc' = "returned"
    /\ UNCHANGED <<data, chunks, task, yielded, attempts, chunk_metrics, retained,
                   processed_rows, self_chunk_size, statsVars, detectVars,
                   validateVars, decimalVars, functionVars>>

\* Lines 189-205 and 259-268, large data set, the pool raises before a future is
\* submitted: the outer handler returns the error object.
SubmitRaise ==
    /\ pc = "call"
    /\ LET rows == RowCount(data)
           size == dynamic_chunk_size(rows)
       IN  /\ rows > size
           /\ total_rows' = rows
           /\ chunk_size' = size
           /\ metrics' = error_result("can't start new thread", rows)
    /\ pc' = "returned"
    /\ UNCHANGED <<data, chunks, task, yielded, attempts, chunk_metrics, retained,
                   processed_rows, self_chunk_size, statsVars, detectVars,
                   validateVars, decimalVars, functionVars>>

----------------------------------------------------------------------------------------------------------------------------------------------
(* The data sets of the model: one column "c" of up to MaxBlocks runs, each  *)
(* of one row or of BlockRows rows, and the frame of                        *)
(* tests/test_quality_check.py.                                            *)

BlockRows == 7000
MaxBlocks == 3

Kinds == {"number", "text", "timestamp"}

CellsOf(kind) ==
    CASE kind = "number"    -> {NULL, <<"1">>, <<"2">>}
      [] kind = "text"      -> {NULL, <<"A">>, <<"b", "1">>}
      [] kind = "timestamp" -> {NULL, <<"1", ":", "0">>, <<"2", ":", "9">>}

\* The dtype pandas gives the column when the frame is built.
pandas_dtype(kind, cells) ==
    CASE kind = "number"    -> IF \E i \in DOMAIN cells : cells[i] = NULL
                               THEN "float64" ELSE "int64"
      [] kind = "text"      -> "object"
      [] kind = "timestamp" -> "datetime64[ns]"

Rows(cells) == [i \in DOMAIN cells |-> [v |-> cells[i], n |-> 1]]

Frame(kind, cells, rows_per_cell) ==
    [columns |-> <<"c">>,
     dtypes  |-> [c \in {"c"} |-> pandas_dtype(kind, cells)],
     values  |-> [c \in {"c"} |-> [i \in DOMAIN cells |-> [v |-> cells[i], n |-> rows_per_cell]]]]

\* tests/test_quality_check.py, lines 5-9
QualityCheckFrame ==
    [columns |-> <<"numeric_col", "string_col", "price_col">>,
     dtypes  |-> [c \in {"numeric_col", "string_col", "price_col"} |->
                    IF c = "numeric_col" THEN "float64" ELSE "object"],
     values  |-> [c \in {"numeric_col", "string_col", "price_col"} |->
        CASE c = "numeric_col" ->
               Rows(<<<<"1">>, <<"2">>, <<"3">>, <<"4">>, <<"5">>>>)
               \o <<[v |-> NULL, n |-> 5]>>
          [] c = "string_col" ->
               Rows(<<<<"A">>, <<"B">>, <<"C">>, <<"D">>, <<"E">>>>)
               \o <<[v |-> NULL, n |-> 5]>>
          [] c = "price_col" ->
               Rows(<<<<"$", "1", "0", "0">>, <<"$", "2", "0", "0">>,
                      <<"R", "s", "3", "0", "0">>, <<"$", "4", "0", "0">>,
                      <<"$", "5", "0", "0">>>>)
               \o <<[v |-> NULL, n |-> 5]>>]]

NoCall == "none"

InitAnalyzerIdle ==
    /\ self_chunk_size = DefaultChunkSize
    /\ data = NoCall
    /\ pc = "idle"
    /\ total_rows = 0
    /\ chunk_size = 0
    /\ chunks = <<>>
    /\ task = <<>>
    /\ yielded = {}
    /\ attempts = <<>>
    /\ chunk_metrics = <<>>
    /\ retained = <<>>
    /\ processed_rows = 0
    /\ metrics = EmptyDict

InitStatsIdle ==
    /\ series = <<>>
    /\ stats = EmptyDict
    /\ stats_pc = "idle"

InitDetectIdle ==
    /\ dq_metrics = EmptyDict
    /\ dq_runs = 0
    /\ dq_first = <<>>

InitValidateIdle ==
    /\ v_df = <<>>
    /\ v_rules0 = <<>>
    /\ v_columns = <<>>
    /\ v_mapping = <<>>
    /\ v_rules = <<>>
    /\ v_pc = "idle"
    /\ v_shared = TRUE
    /\ v_data = <<>>
    /\ v_suite = <<>>
    /\ v_result = <<>>

InitDecimalIdle ==
    /\ dec_written = <<>>
    /\ dec_column = <<>>
    /\ dec_result = <<>>
    /\ dec_pc = "idle"

InitFunctionIdle ==
    /\ fn_name = "none"
    /\ fn_args = <<>>
    /\ fn_result = <<>>
    /\ fn_pc = "idle"

InitCall ==
    /\ pc = "call"
    /\ total_rows = 0
    /\ chunk_size = 0
    /\ chunks = <<>>
    /\ task = <<>>
    /\ yielded = {}
    /\ attempts = <<>>
    /\ chunk_metrics = <<>>
    /\ retained = <<>>
    /\ processed_rows = 0
    /\ metrics = EmptyDict

Init ==
    /\ \/ \E kind \in Kinds, rows_per_cell \in {1, BlockRows} :
            \E cells \in UNION {[1..n -> CellsOf(kind)] : n \in 0..MaxBlocks} :
                data = Frame(kind, cells, rows_per_cell)
       \/ data = QualityCheckFrame
       \/ \E rows \in {MinChunkSize, MinChunkSize + 1} :
            data = Frame("number", <<<<"1">>>>, rows)
    /\ self_chunk_size = IF data = QualityCheckFrame THEN QualityCheckChunkSize
                                                     ELSE DefaultChunkSize
    /\ InitCall
    /\ InitStatsIdle
    /\ InitDetectIdle
    /\ InitValidateIdle
    /\ InitDecimalIdle
    /\ InitFunctionIdle

Next ==
    \/ SubmitChunks
    \/ \E i \in DOMAIN task : WorkerStart(i)
    \/ \E i \in DOMAIN task : WorkerReturn(i)
    \/ \E i \in DOMAIN task : NextCompleted(i)
    \/ CombineAndReturn
    \/ AnalyzeWhole
    \/ \E i \in DOMAIN task : WorkerRaise(i)
    \/ AnalyzeWholeRaise
    \/ SubmitRaise

Spec == Init /\ [][Next]_vars

----------------------------------------------------------------------------
(* compute_stats applied to a series written row by row *)

MaxLen == 4

StatsCells == {NULL, <<"1">>, <<"2">>}

InitStats ==
    /\ \E cells \in UNION {[1..n -> StatsCells] : n \in 0..MaxLen} :
          series = Rows(cells)
    /\ stats = EmptyDict
    /\ stats_pc = "call"
    /\ InitAnalyzerIdle
    /\ InitDetectIdle
    /\ InitValidateIdle
    /\ InitDecimalIdle
    /\ InitFunctionIdle

ComputeStats ==
    /\ stats_pc = "call"
    /\ stats' = compute_stats("c", "Float64", series)
    /\ stats_pc' = "returned"
    /\ UNCHANGED <<series, analyzerVars, detectVars, validateVars, decimalVars, functionVars>>

NextStats == ComputeStats

SpecStats == InitStats /\ [][NextStats]_vars

----------------------------------------------------------------------------
(* The chunk plan of analyze_data_quality for large data sets: one column   *)
(* holding one run of the given number of rows.                            *)

PlanStep == 50000
MaxPlanSteps == 30
PlanOffsets == {0, 1, MinChunkSize, MinChunkSize + 1}
\* Values of the constructor's chunk_size
ConfiguredChunkSizes == {QualityCheckChunkSize, 2 * MinChunkSize, DefaultChunkSize}
PlanTotals == {b * PlanStep + d : b \in 0..MaxPlanSteps, d \in PlanOffsets}

InitChunks ==
    /\ \E rows \in PlanTotals : data = Frame("number", <<<<"1">>>>, rows)
    /\ self_chunk_size \in ConfiguredChunkSizes
    /\ InitCall
    /\ InitStatsIdle
    /\ InitDetectIdle
    /\ InitValidateIdle
    /\ InitDecimalIdle
    /\ InitFunctionIdle

NextChunks ==
    \/ SubmitChunks
    \/ AnalyzeWhole

SpecChunks == InitChunks /\ [][NextChunks]_vars

----------------------------------------------------------------------------
(* detect_quality_issues called repeatedly on one metrics dict *)

MaxRuns == 3
DetectRows == 10

SampleTexts == {<<"A">>, <<"b">>, <<"1", "2">>, <<"$", "1">>}

StaleIssue ==
    [column |-> "c", issue_type |-> "high_null_percentage",
     description |-> <<"% null values", 1000>>, severity |-> "high"]

\* The stats of a second column, present in some of the dicts.
OtherColumnStats ==
    [null_count |-> 6, unique_count |-> 4, sample_values |-> {<<"A">>, <<"b">>}]

DetectInputs ==
    {   [total_rows   |-> rows,
         column_stats |-> [c \in cols |->
                             IF c = "c"
                             THEN [null_count |-> nulls, unique_count |-> uniques,
                                   sample_values |-> samples]
                             ELSE OtherColumnStats],
         schema_info  |-> [b \in {"numeric_columns", "string_columns", "date_columns"} |->
                             IF b = cat THEN <<"c">>
                             ELSE IF b = "string_columns" /\ "d" \in cols THEN <<"d">>
                             ELSE <<>>]]
        @@ prior :
        rows \in {0, DetectRows},
        cols \in {{"c"}, {"c", "d"}},
        nulls \in {0, 2, 3, 5, 6},
        uniques \in {0, 4, 5},
        samples \in SUBSET SampleTexts,
        cat \in {"numeric_columns", "string_columns", "date_columns"},
        prior \in {EmptyDict, [data_quality_issues |-> <<>>],
                   [data_quality_issues |-> <<StaleIssue>>]}   }

InitDetect ==
    /\ dq_metrics \in DetectInputs
    /\ dq_runs = 0
    /\ dq_first = <<>>
    /\ InitAnalyzerIdle
    /\ InitStatsIdle
    /\ InitValidateIdle
    /\ InitDecimalIdle
    /\ InitFunctionIdle

DetectQualityIssues ==
    /\ dq_runs < MaxRuns
    /\ dq_metrics' = detect_quality_issues(dq_metrics)
    /\ dq_first' = IF dq_runs = 0
                   THEN detect_quality_issues(dq_metrics).data_quality_issues
                   ELSE dq_first
    /\ dq_runs' = dq_runs + 1
    /\ UNCHANGED <<analyzerVars, statsVars, validateVars, decimalVars, functionVars>>

NextDetect == DetectQualityIssues

SpecDetect == InitDetect /\ [][NextDetect]_vars

----------------------------------------------------------------------------
(* data_validator.validate_data: column-name normalization (lines 356-400).  *)
(* A column name and an expression are texts.  A rule is a dict with         *)
(* expectation_type and kwargs, and meta when it has one.                    *)

WordChars == DigitChars \cup UpperChars \cup LowerChars \cup {"_"}
OperatorChars == {"*", "+", "-", "/"}

\* ' ' in col
has_space(text) == \E i \in DOMAIN text : text[i] = " "

\* col.replace(' ', '_')
replace_spaces(text) == [i \in DOMAIN text |-> IF text[i] = " " THEN "_" ELSE text[i]]

\* str.isidentifier(), for texts of ASCII characters
isidentifier(text) ==
    /\ text # <<>>
    /\ text[1] \notin DigitChars
    /\ \A i \in DOMAIN text : text[i] \in WordChars

\* re.search(r"[\*\+\-/]", s) and not s.isidentifier()
is_expression(text) ==
    (\E i \in DOMAIN text : text[i] \in OperatorChars) /\ ~isidentifier(text)

\* Does r'(?<!\w)' + re.escape(old) + r'(?!\w)' match text at position i?
word_match_at(old, text, i) ==
    /\ i + Len(old) - 1 <= Len(text)
    /\ SubSeq(text, i, i + Len(old) - 1) = old
    /\ (i = 1 \/ text[i - 1] \notin WordChars)
    /\ (i + Len(old) > Len(text) \/ text[i + Len(old)] \notin WordChars)

\* re.sub of that pattern from position i on: the leftmost matches that do not
\* overlap are replaced.
RECURSIVE re_sub_from(_, _, _, _)
re_sub_from(old, new, text, i) ==
    IF i > Len(text) THEN <<>>
    ELSE IF old # <<>> /\ word_match_at(old, text, i)
         THEN new \o re_sub_from(old, new, text, i + Len(old))
         ELSE <<text[i]>> \o re_sub_from(old, new, text, i + 1)

re_sub_word(old, new, text) == re_sub_from(old, new, text, 1)

\* Lines 383-385 and 397-399: one re.sub per entry of column_mapping, in order.
RECURSIVE rename_in_expression(_, _)
rename_in_expression(mapping, expr) ==
    IF mapping = <<>> THEN expr
    ELSE rename_in_expression(Tail(mapping),
                              re_sub_word(Head(mapping)[1], Head(mapping)[2], expr))

\* column_mapping[col] and col in column_mapping
mapped(mapping, col) == \E k \in DOMAIN mapping : mapping[k][1] = col
mapping_of(mapping, col) ==
    mapping[CHOOSE k \in DOMAIN mapping : mapping[k][1] = col][2]
\* column_mapping.get(col, col)
mapping_get(mapping, col) ==
    IF mapped(mapping, col) THEN mapping_of(mapping, col) ELSE col

\* Lines 358-362: the mapping of the columns with a space, in column order.
RECURSIVE column_mapping(_)
column_mapping(columns) ==
    IF columns = <<>> THEN <<>>
    ELSE (IF has_space(Head(columns))
          THEN <<<<Head(columns), replace_spaces(Head(columns))>>>> ELSE <<>>)
         \o column_mapping(Tail(columns))

\* df.rename(columns=column_mapping)
rename_columns(columns, mapping) ==
    [i \in DOMAIN columns |-> mapping_get(mapping, columns[i])]

\* Lines 371-390: the kwargs of one rule after the update.
normalize_kwargs(kwargs, mapping) ==
    LET col_a ==
            IF "column_A" \in DOMAIN kwargs /\ mapped(mapping, kwargs["column_A"])
            THEN [column_A |-> mapping_of(mapping, kwargs["column_A"])]
            ELSE EmptyDict
        col_b ==
            IF "column_B" \in DOMAIN kwargs
            THEN IF mapped(mapping, kwargs["column_B"])
                 THEN [column_B |-> mapping_of(mapping, kwargs["column_B"])]
                 ELSE IF is_expression(kwargs["column_B"])
                 THEN [column_B |-> rename_in_expression(mapping, kwargs["column_B"])]
                 ELSE EmptyDict
            ELSE EmptyDict
        col_list ==
            IF "column_list" \in DOMAIN kwargs
            THEN [column_list |->
                    [i \in DOMAIN kwargs["column_list"] |->
                        mapping_get(mapping, kwargs["column_list"][i])]]
            ELSE EmptyDict
    IN  col_a @@ col_b @@ col_list @@ kwargs

\* Lines 393-400: the meta of one rule after the update.
normalize_meta(meta, mapping) ==
    IF "expression_column" \in DOMAIN meta
    THEN [expression_column |-> rename_in_expression(mapping, meta["expression_column"])]
         @@ meta
    ELSE meta

normalize_rule(rule, mapping) ==
    (IF "meta" \in DOMAIN rule
     THEN [meta |-> normalize_meta(rule["meta"], mapping)] ELSE EmptyDict)
    @@ [kwargs |-> normalize_kwargs(rule["kwargs"], mapping)]
    @@ rule


----------------------------------------------------------------------------
(* data_validator.convert_to_decimal.  A number is [nan, v]: v counts       *)
(* ten-thousandths (1200.5 is 12005000), and NaN has nan true.  The values  *)
(* of the model have at most two decimals, so a division by 100 is exact.   *)
(* An optional argument is <<>> for None and <<n>> for n.                   *)

\* The decimals a number of the model keeps
ScaleDigits == 4
Num(v) == [nan |-> FALSE, v |-> v]
NaN == [nan |-> TRUE, v |-> 0]

CurrencySymbols == {"$", "£", "€", "¥"}
Separators == {","} \cup SpaceChars

\* str(value): the text itself; None gives "None".
astype_str(cell) == IF cell = NULL THEN <<"N", "o", "n", "e">> ELSE cell

startswith(text, ch) == text # <<>> /\ text[1] = ch
endswith(text, ch) == text # <<>> /\ text[Len(text)] = ch

\* Line 184: str.replace(r'^\((.*?)\)$', r'\1', regex=True)
strip_parentheses(text) ==
    IF Len(text) >= 2 /\ startswith(text, "(") /\ endswith(text, ")")
    THEN SubSeq(text, 2, Len(text) - 1)
    ELSE text

\* str.replace of every character of a class by ''
remove_chars(text, class) == FilterSeq(text, {text[i] : i \in DOMAIN text} \ class)

\* Ten to the power n
RECURSIVE Pow10(_)
Pow10(n) == IF n = 0 THEN 1 ELSE 10 * Pow10(n - 1)

Scale == Pow10(ScaleDigits)

\* pd.to_numeric(text, errors='coerce') for the texts of the model: an optional
\* sign, digits with at most one point and at most ScaleDigits decimals.
to_numeric(text) ==
    LET signed == text # <<>> /\ text[1] \in {"-", "+"}
        body   == IF signed THEN Tail(text) ELSE text
        whole  == Before(body, ".")
        frac   == After(body, ".")
        parses == /\ \A i \in DOMAIN whole : whole[i] \in DigitChars
                  /\ \A i \in DOMAIN frac : frac[i] \in DigitChars
                  /\ Len(whole) + Len(frac) >= 1
                  /\ Len(frac) <= ScaleDigits
        value  == ParseInt(whole) * Scale + ParseInt(frac) * Pow10(ScaleDigits - Len(frac))
    IN  IF ~parses THEN NaN
        ELSE IF signed /\ text[1] = "-" THEN Num(0 - value) ELSE Num(value)

\* -series
negated(number) == IF number.nan THEN NaN ELSE Num(0 - number.v)
\* series / 100
hundredth(number) == IF number.nan THEN NaN ELSE Num(number.v \div 100)
\* series.round(decimal_places)
rounded(number, decimal_places) ==
    IF number.nan \/ decimal_places >= ScaleDigits THEN number
    ELSE LET unit == Pow10(ScaleDigits - decimal_places)
         IN  IF number.v >= 0 THEN Num(RoundDiv(number.v, unit) * unit)
             ELSE Num(0 - RoundDiv(0 - number.v, unit) * unit)

\* Lines 179-205, for one value of the column.
decimal_of(cell, decimal_places) ==
    LET text     == astype_str(cell)
        negative == startswith(text, "(") /\ endswith(text, ")")
        bare     == remove_chars(remove_chars(strip_parentheses(text), CurrencySymbols),
                                 Separators)
        percent  == \E i \in DOMAIN bare : bare[i] = "%"
        number   == to_numeric(remove_chars(bare, {"%"}))
        signed   == IF negative THEN negated(number) ELSE number
        scaled   == IF percent THEN hundredth(signed) ELSE signed
    IN  IF decimal_places = <<>> THEN scaled ELSE rounded(scaled, decimal_places[1])

\* convert_to_decimal(df, column, decimal_places), values being df[column]
convert_to_decimal(values, decimal_places) ==
    [i \in DOMAIN values |-> decimal_of(values[i], decimal_places)]

(* The columns of the model: one value, a number written with a currency    *)
(* symbol, separators, whitespace, parentheses and a percent sign in every  *)
(* combination, or a text that is no number; and the column of the          *)
(* specification's example.                                                 *)

Numerals ==
    { [text |-> <<"5", "0">>, value |-> Num(50 * Scale)],
      [text |-> <<"1", "0", "0">>, value |-> Num(100 * Scale)],
      [text |-> <<"2", "5">>, value |-> Num(25 * Scale)],
      [text |-> <<"1", ",", "2", "0", "0", ".", "5">>, value |-> Num(1200 * Scale + 5000)] }

NotNumbers == { [text |-> <<"x">>, value |-> NaN], [text |-> NULL, value |-> NaN] }

Places == {"none", "inner", "outer"}

Writings ==
    [num : Numerals, currency : CurrencySymbols, currency_at : Places,
     parentheses : BOOLEAN, percent_at : Places, space_at : Places]

\* The text of a writing: inner marks are inside the parentheses, outer marks
\* outside.
Written(w) ==
    LET cur(at)  == IF w.currency_at = at THEN <<w.currency>> ELSE <<>>
        pct(at)  == IF w.percent_at = at THEN <<"%">> ELSE <<>>
        sp(at)   == IF w.space_at = at THEN <<" ">> ELSE <<>>
        inner    == cur("inner") \o sp("inner") \o w.num.text \o pct("inner")
        wrapped  == IF w.parentheses THEN <<"(">> \o inner \o <<")">> ELSE inner
    IN  sp("outer") \o cur("outer") \o wrapped \o pct("outer") \o sp("outer")

\* The number a writing stands for.
Meant(w) ==
    LET signed == IF w.parentheses THEN Num(0 - w.num.value.v) ELSE w.num.value
    IN  IF w.percent_at # "none" THEN Num(signed.v \div 100) ELSE signed

Plain(num) ==
    [num |-> num, currency |-> "$", currency_at |-> "none", parentheses |-> FALSE,
     percent_at |-> "none", space_at |-> "none"]

\* ["$100", "(50)", "25%", "1,200.5"]
ExampleWritings ==
    LET n(text) == CHOOSE num \in Numerals : num.text = text
    IN  << [Plain(n(<<"1", "0", "0">>)) EXCEPT !.currency_at = "outer"],
           [Plain(n(<<"5", "0">>)) EXCEPT !.parentheses = TRUE],
           [Plain(n(<<"2", "5">>)) EXCEPT !.percent_at = "outer"],
           Plain(n(<<"1", ",", "2", "0", "0", ".", "5">>)) >>

InitDecimal ==
    /\ \/ \E w \in Writings : dec_written = <<w>>
       \/ \E num \in NotNumbers : dec_written = <<Plain(num)>>
       \/ dec_written = ExampleWritings
    /\ dec_column = [i \in DOMAIN dec_written |->
                        IF dec_written[i].num.text = NULL THEN NULL
                        ELSE Written(dec_written[i])]
    /\ dec_result = <<>>
    /\ dec_pc = "call"
    /\ InitAnalyzerIdle
    /\ InitStatsIdle
    /\ InitDetectIdle
    /\ InitValidateIdle
    /\ InitFunctionIdle

ConvertToDecimal ==
    /\ dec_pc = "call"
    /\ dec_result' = convert_to_decimal(dec_column, <<>>)
    /\ dec_pc' = "returned"
    /\ UNCHANGED <<dec_written, dec_column, analyzerVars, statsVars, detectVars,
                   validateVars, functionVars>>

NextDecimal == ConvertToDecimal

SpecDecimal == InitDecimal /\ [][NextDecimal]_vars

----------------------------------------------------------------------------
(* data_validator.validate_data.  A DataFrame is [columns, data]: the names  *)
(* in order and the column behind each name.  A column is [dtype, cells,    *)
(* made_by, source]: a caller's column has its cells; a column the call     *)
(* adds names the function that made it and what it was made from, and has  *)
(* cells where the model computes them (convert_to_decimal).                *)

DecimalPrefix == <<"_", "_", "d", "e", "c", "i", "m", "a", "l", "_">>
DatetimePrefix == <<"_", "_", "d", "a", "t", "e", "t", "i", "m", "e", "_">>
NumericPrefix == <<"_", "_", "n", "u", "m", "e", "r", "i", "c", "_">>
ExprColPrefix == <<"_", "_", "e", "x", "p", "r", "_", "c", "o", "l", "_">>
\* rule.get('rule_id', 'expr') of validate_data
ValidateDefaultRuleId == <<"e", "x", "p", "r">>
\* rule.get("rule_id", "expr_col") of create_expectation_suite
SuiteDefaultRuleId == <<"e", "x", "p", "r", "_", "c", "o", "l">>

PairValuesToBeEqual == "expect_column_pair_values_to_be_equal"

in_columns(df, col) == \E i \in DOMAIN df.columns : df.columns[i] = col

\* df[name] = column
set_column(df, name, column) ==
    [columns |-> IF in_columns(df, name) THEN df.columns ELSE Append(df.columns, name),
     data    |-> (name :> column) @@ df.data]

CallerColumn(dtype, cells) ==
    [dtype |-> dtype, cells |-> cells, made_by |-> "caller", source |-> <<>>]
MadeColumn(dtype, cells, made_by, source) ==
    [dtype |-> dtype, cells |-> cells, made_by |-> made_by, source |-> source]

\* str.lower() of one character
UpperSeq == <<"A", "B", "C", "D", "E", "F", "G", "H", "I", "J", "K", "L", "M",
              "N", "O", "P", "Q", "R", "S", "T", "U", "V", "W", "X", "Y", "Z">>
LowerSeq == <<"a", "b", "c", "d", "e", "f", "g", "h", "i", "j", "k", "l", "m",
              "n", "o", "p", "q", "r", "s", "t", "u", "v", "w", "x", "y", "z">>
lower(text) ==
    [i \in DOMAIN text |->
        IF text[i] \in UpperChars
        THEN LowerSeq[CHOOSE k \in DOMAIN UpperSeq : UpperSeq[k] = text[i]]
        ELSE text[i]]

\* Line 288
bool_values ==
    {<<"t", "r", "u", "e">>, <<"f", "a", "l", "s", "e">>, <<"t">>, <<"f">>,
     <<"y", "e", "s">>, <<"n", "o">>, <<"y">>, <<"n">>, <<"1">>, <<"0">>}

\* A text of the form dddd-dd-dd
is_date_text(text) ==
    /\ Len(text) = 10
    /\ \A i \in DOMAIN text : IF i \in {5, 8} THEN text[i] = "-" ELSE text[i] \in DigitChars

\* pd.to_datetime(samples, errors='raise') returns: integers are read as
\* offsets from the epoch, texts must be dates.
to_datetime_parses(dtype, samples) ==
    \/ dtype \in {"int64", "float64"}
    \/ \A i \in DOMAIN samples : is_date_text(samples[i])

\* Lines 265-346: base_type and specific_type of the dict it returns.
detect_column_type(column) ==
    LET samples == FilterSeq(column.cells, {column.cells[i] : i \in DOMAIN column.cells} \ {NULL})
        uniques == {samples[i] : i \in DOMAIN samples}
        type(base, specific) == [base_type |-> base, specific_type |-> specific]
    IN  IF samples = <<>> THEN type("unknown", "unknown")
        ELSE IF column.dtype = "datetime64" THEN type("datetime", "datetime64")
        ELSE IF \A val \in uniques : lower(val) \in bool_values THEN type("boolean", "boolean")
        ELSE IF to_datetime_parses(column.dtype, samples) THEN type("datetime", "datetime")
        ELSE IF \A val \in uniques : ~to_numeric(val).nan
             THEN type("numeric",
                       IF \A val \in uniques : to_numeric(val).v % Scale = 0
                       THEN "integer" ELSE "float")
        ELSE IF Cardinality(uniques) * 10 < Len(samples) /\ Cardinality(uniques) < 50
             THEN type("categorical", "categorical")
        ELSE type("string", "string")

\* Line 419, col_type == 'datetime': col_type is the dict detect_column_type
\* returns, and a dict never equals a str.
dict_equals_str(col_type, text) == FALSE

\* The character U+0060, which a string of this module cannot hold
Backtick == "backtick"

\* Lines 60-62
escape_column_name(column) ==
    IF \E i \in DOMAIN column : column[i] \in SpaceChars \cup OperatorChars \cup {"(", ")", "[", "]"}
    THEN <<Backtick>> \o column \o <<Backtick>>
    ELSE column

\* re.findall(r'\b[A-Za-z_][A-Za-z0-9_\s]*\b', text): a match starts at a
\* letter or underscore that begins a word, runs over word characters and
\* whitespace, and gives back the whitespace it ends with.
RECURSIVE run_end(_, _)
run_end(text, j) ==
    IF j < Len(text) /\ text[j + 1] \in WordChars \cup SpaceChars
    THEN run_end(text, j + 1) ELSE j
RECURSIVE trim_end(_, _)
trim_end(text, j) == IF text[j] \in WordChars THEN j ELSE trim_end(text, j - 1)
RECURSIVE findall_names(_, _)
findall_names(text, i) ==
    IF i > Len(text) THEN <<>>
    ELSE IF /\ text[i] \in UpperChars \cup LowerChars \cup {"_"}
            /\ (i = 1 \/ text[i - 1] \notin WordChars)
         THEN LET j == trim_end(text, run_end(text, i))
              IN  <<SubSeq(text, i, j)>> \o findall_names(text, j + 1)
         ELSE findall_names(text, i + 1)

\* Line 112: the tokens the boolean branch maps to 1
true_values == {<<"t", "r", "u", "e">>, <<"y", "e", "s">>, <<"y">>, <<"1">>, <<"t">>}

\* Line 108, series.fillna(0)
fillna_zero(numbers) == [i \in DOMAIN numbers |-> IF numbers[i].nan THEN Num(0) ELSE numbers[i]]

\* Lines 102-118: the cells of the numeric version of a column, by the type
\* detect_column_type found; decimals is what convert_to_decimal returns for
\* the column.
numeric_cells(cells, col_info, decimals) ==
        CASE col_info.base_type = "numeric" /\ col_info.specific_type = "integer" ->
               fillna_zero([i \in DOMAIN cells |-> to_numeric(cells[i])])
          [] col_info.base_type = "numeric" /\ col_info.specific_type # "integer" ->
               decimals
          [] col_info.base_type = "boolean" ->
               [i \in DOMAIN cells |->
                   IF lower(astype_str(cells[i])) \in true_values
                   THEN Num(Scale) ELSE Num(0)]
          [] OTHER ->
               IF \A i \in DOMAIN decimals : decimals[i].nan
               THEN [i \in DOMAIN decimals |-> Num(0)]
               ELSE decimals

\* Lines 93-122: the numeric version of a column of df.  The model computes
\* the cells of the version of a caller's column that is no datetime; the
\* seconds of a datetime column, and the version of a column the call itself
\* added, are columns without cells.
\* col_info is what detect_column_type returns for the column (line 93).
numeric_version(column, col, col_info, decimal_places) ==
    IF column.made_by # "caller" \/ col_info.base_type = "datetime"
    THEN MadeColumn("numeric", <<>>, "preprocess_expression", col)
    ELSE MadeColumn("numeric",
                    numeric_cells(column.cells, col_info,
                                  convert_to_decimal(column.cells, decimal_places)),
                    "preprocess_expression", col)

\* Lines 88-126: for each potential column that is a column of df, a numeric
\* version is added to df and the name is replaced in the expression.
RECURSIVE preprocess_columns(_, _, _, _, _)
preprocess_columns(df, expr, temp_columns, potential_columns, decimal_places) ==
    IF potential_columns = <<>>
    THEN [df |-> df, expr |-> expr, temp_columns |-> temp_columns]
    ELSE LET col      == Head(potential_columns)
             temp_col == NumericPrefix \o replace_spaces(col)
         IN  IF in_columns(df, col)
             THEN preprocess_columns(
                      set_column(df, temp_col,
                                 numeric_version(df.data[col], col,
                                                 detect_column_type(df.data[col]),
                                                 decimal_places)),
                      re_sub_word(col, escape_column_name(temp_col), expr),
                      Append(temp_columns, temp_col),
                      Tail(potential_columns), decimal_places)
             ELSE preprocess_columns(df, expr, temp_columns, Tail(potential_columns),
                                     decimal_places)

\* Lines 64-128
preprocess_expression(df, expression, decimal_places, mapping) ==
    LET modified_expression == rename_in_expression(mapping, expression)
    IN  preprocess_columns(df, modified_expression, <<>>,
                           findall_names(modified_expression, 1), decimal_places)

\* expression.replace("=", "==")
double_equals(text) ==
    ConcatAll([i \in DOMAIN text |-> IF text[i] = "=" THEN <<"=", "=">> ELSE <<text[i]>>])

\* The comparison operators of Python, which df.eval accepts between two
\* operands.
ComparisonOperators ==
    {<<"=", "=">>, <<"!", "=">>, <<"<", "=">>, <<">", "=">>, <<"<">>, <<">">>}

\* The tokens of an expression: names and numbers, quoted names, the
\* two-character comparison operators, and single characters.
RECURSIVE word_prefix(_)
word_prefix(text) ==
    IF text # <<>> /\ Head(text) \in WordChars
    THEN <<Head(text)>> \o word_prefix(Tail(text)) ELSE <<>>
RECURSIVE tokens_of(_)
tokens_of(text) ==
    IF text = <<>> THEN <<>>
    ELSE IF Head(text) \in SpaceChars THEN tokens_of(Tail(text))
    ELSE IF Head(text) \in WordChars
         THEN LET word == word_prefix(text)
              IN  <<word>> \o tokens_of(SubSeq(text, Len(word) + 1, Len(text)))
    ELSE IF Head(text) = Backtick /\ \E i \in DOMAIN Tail(text) : Tail(text)[i] = Backtick
         THEN LET name == Before(Tail(text), Backtick)
              IN  <<name>> \o tokens_of(SubSeq(text, Len(name) + 3, Len(text)))
    ELSE IF Len(text) >= 2 /\ SubSeq(text, 1, 2) \in ComparisonOperators
         THEN <<SubSeq(text, 1, 2)>> \o tokens_of(SubSeq(text, 3, Len(text)))
    ELSE <<<<Head(text)>>>> \o tokens_of(Tail(text))

\* df.eval(expr) returns: operands, which are columns of df or numbers, with
\* one arithmetic or comparison operator between each two.
eval_parses(df, expr) ==
    LET tokens == tokens_of(expr)
    IN  /\ Len(tokens) % 2 = 1
        /\ \A k \in DOMAIN tokens :
              IF k % 2 = 1
              THEN in_columns(df, tokens[k]) \/ AllDigits(tokens[k])
              ELSE \/ Len(tokens[k]) = 1 /\ tokens[k][1] \in OperatorChars
                   \/ tokens[k] \in ComparisonOperators

\* Lines 130-164: the df after the call, whether it raised ValueError, and
\* the Series it returns.
evaluate_expression(df, expression, decimal_places) ==
    LET pre == preprocess_expression(df, double_equals(expression), decimal_places, <<>>)
    IN  [df     |-> pre.df,
         raised |-> ~eval_parses(pre.df, pre.expr),
         result |-> MadeColumn("numeric", <<>>, "evaluate_expression", pre.expr)]

\* meta.get("decimal_places"), meta being rule.get("meta", {})
decimal_places_of(rule) ==
    IF "meta" \in DOMAIN rule /\ "decimal_places" \in DOMAIN rule["meta"]
    THEN <<rule["meta"]["decimal_places"]>> ELSE <<>>

\* Lines 420-424 and 439-444: the converted column is added under its
\* synthetic name and the rule refers to that name.
convert_column(df, kwargs, key, is_datetime, decimal_places) ==
    LET col == kwargs[key]
        new_col == (IF is_datetime THEN DatetimePrefix ELSE DecimalPrefix) \o col
        column ==
            IF is_datetime
            THEN MadeColumn("datetime64", <<>>, "convert_to_datetime", col)
            ELSE MadeColumn("float64",
                            convert_to_decimal(df.data[col].cells, decimal_places),
                            "convert_to_decimal", col)
    IN  [df |-> set_column(df, new_col, column), kwargs |-> (key :> new_col) @@ kwargs]

\* What the loop body leaves: the df, the rule with its kwargs, and the
\* exception that ended it ("" for none).
done(df, rule, kwargs, error) ==
    [df |-> df, rule |-> [rule EXCEPT !["kwargs"] = kwargs], error |-> error]

\* Lines 415-424: column_A is converted; df[col_a] raises KeyError for a
\* name that is no column.
materialize_column_A(df, rule) ==
    LET kwargs == rule["kwargs"]
    IN  IF rule["expectation_type"] # PairValuesToBeEqual \/ "column_A" \notin DOMAIN kwargs
        THEN [df |-> df, kwargs |-> kwargs, error |-> ""]
        ELSE IF ~in_columns(df, kwargs["column_A"])
        THEN [df |-> df, kwargs |-> kwargs, error |-> "KeyError"]
        ELSE [error |-> ""] @@
             convert_column(df, kwargs, "column_A",
                 dict_equals_str(detect_column_type(df.data[kwargs["column_A"]]), "datetime"),
                 decimal_places_of(rule))

\* rule.get('rule_id', 'expr')
validate_rule_id(rule) ==
    IF "rule_id" \in DOMAIN rule THEN rule["rule_id"] ELSE ValidateDefaultRuleId

\* Lines 433-434: the result of evaluate_expression is stored under new_col
\* unless it raised.
store_expression(rule, kwargs, ev) ==
    IF ev.raised THEN done(ev.df, rule, kwargs, "ValueError")
    ELSE done(set_column(ev.df, ExprColPrefix \o validate_rule_id(rule), ev.result),
              rule, kwargs, "")

\* Line 434, on what preprocess_expression returned
evaluate_preprocessed(pre, decimal_places) ==
    evaluate_expression(pre.df, pre.expr, decimal_places)

\* Lines 436-444: a plain column_B is converted by its base_type.
materialize_plain_B(rule, after_a) ==
    LET col_b == after_a.kwargs["column_B"]
    IN  IF ~in_columns(after_a.df, col_b)
        THEN done(after_a.df, rule, after_a.kwargs, "KeyError")
        ELSE LET after_b ==
                     convert_column(after_a.df, after_a.kwargs, "column_B",
                         detect_column_type(after_a.df.data[col_b]).base_type = "datetime",
                         decimal_places_of(rule))
             IN  done(after_b.df, rule, after_b.kwargs, "")

\* Lines 426-444, after column_A
materialize_column_B(rule, after_a, mapping) ==
    IF after_a.error # "" THEN done(after_a.df, rule, after_a.kwargs, after_a.error)
    ELSE IF rule["expectation_type"] # PairValuesToBeEqual
            \/ "column_B" \notin DOMAIN after_a.kwargs
    THEN done(after_a.df, rule, after_a.kwargs, "")
    ELSE IF is_expression(after_a.kwargs["column_B"])
    THEN store_expression(rule, after_a.kwargs,
             evaluate_preprocessed(
                 preprocess_expression(after_a.df, after_a.kwargs["column_B"],
                                       decimal_places_of(rule), mapping),
                 decimal_places_of(rule)))
    ELSE materialize_plain_B(rule, after_a)

\* Lines 403-453 for one rule
materialize_rule(df, rule, mapping) ==
    materialize_column_B(rule, materialize_column_A(df, rule), mapping)

\* The loop of lines 403-453 from rule k on; it ends at the first rule that
\* raises.
RECURSIVE materialize_from(_, _, _, _)
materialize_step(step, rules, k, mapping) ==
    IF step.error # ""
    THEN [df |-> step.df, rules |-> [rules EXCEPT ![k] = step.rule], error |-> step.error]
    ELSE materialize_from(step.df, [rules EXCEPT ![k] = step.rule], k + 1, mapping)
materialize_from(df, rules, k, mapping) ==
    IF k > Len(rules) THEN [df |-> df, rules |-> rules, error |-> ""]
    ELSE materialize_step(materialize_rule(df, rules[k], mapping), rules, k, mapping)

\* Lines 33-51 for one rule: the rule after it and its expectation
\* configuration.  meta is the rule's own dict when the rule has one.
suite_rule(rule) ==
    LET kwargs == rule["kwargs"]
        meta == IF "meta" \in DOMAIN rule THEN rule["meta"] ELSE EmptyDict
        col_b == kwargs["column_B"]
        expr_col_name ==
            ExprColPrefix \o
            (IF "rule_id" \in DOMAIN rule THEN rule["rule_id"] ELSE SuiteDefaultRuleId)
        rewrite == rule["expectation_type"] = PairValuesToBeEqual /\ is_expression(col_b)
        new_kwargs == IF rewrite THEN [column_B |-> expr_col_name] @@ kwargs ELSE kwargs
        new_meta ==
            IF rewrite
            THEN [expression_column |-> col_b, generated_column_name |-> expr_col_name] @@ meta
            ELSE meta
    IN  [rule |-> (IF "meta" \in DOMAIN rule THEN [meta |-> new_meta] ELSE EmptyDict)
                  @@ [kwargs |-> new_kwargs] @@ rule,
         expectation_config |->
             [expectation_type |-> rule["expectation_type"],
              kwargs |-> new_kwargs, meta |-> new_meta]]

\* Lines 28-55
create_expectation_suite(rules) ==
    [rules |-> [k \in DOMAIN rules |-> suite_rule(rules[k]).rule],
     suite |-> [k \in DOMAIN rules |-> suite_rule(rules[k]).expectation_config]]

\* Lines 356-400.  The rules are updated only when some column has a space;
\* df.rename returns a new DataFrame, so the local df then is no longer the
\* caller's.
NormalizeColumns ==
    /\ v_pc = "call"
    /\ LET mapping == column_mapping(v_df)
       IN  /\ v_mapping' = mapping
           /\ v_shared' = (mapping = <<>>)
           /\ v_columns' = IF mapping # <<>> THEN rename_columns(v_df, mapping) ELSE v_df
           /\ v_data' = IF mapping # <<>>
                        THEN [col \in {mapping_get(mapping, v_df[i]) : i \in DOMAIN v_df} |->
                                 v_data[CHOOSE old \in DOMAIN v_data :
                                            mapping_get(mapping, old) = col]]
                        ELSE v_data
           /\ v_rules' = IF mapping # <<>>
                         THEN [k \in DOMAIN v_rules |-> normalize_rule(v_rules[k], mapping)]
                         ELSE v_rules
    /\ v_pc' = "normalized"
    /\ UNCHANGED <<v_df, v_rules0, v_suite, v_result,
                   analyzerVars, statsVars, detectVars, decimalVars, functionVars>>

\* Lines 402-453.  No handler surrounds the loop: an exception of a rule
\* ends validate_data.
Materialize ==
    /\ v_pc = "normalized"
    /\ LET out == materialize_from([columns |-> v_columns, data |-> v_data],
                                   v_rules, 1, v_mapping)
       IN  /\ v_columns' = out.df.columns
           /\ v_data' = out.df.data
           /\ v_rules' = out.rules
           /\ v_pc' = IF out.error = "" THEN "materialized" ELSE "raised"
           /\ v_result' = IF out.error = "" THEN v_result ELSE [raised |-> out.error]
    /\ UNCHANGED <<v_df, v_rules0, v_shared, v_mapping, v_suite,
                   analyzerVars, statsVars, detectVars, decimalVars, functionVars>>

\* Lines 456-468.  The outcome of each expectation is great_expectations'
\* computation; the report holds the configuration of each.
RunSuite ==
    /\ v_pc = "materialized"
    /\ LET out == create_expectation_suite(v_rules)
       IN  /\ v_rules' = out.rules
           /\ v_suite' = out.suite
           /\ v_result' = [message |-> "Validation complete.",
                           validation_result |->
                               [k \in DOMAIN out.suite |->
                                   [expectation_config |-> out.suite[k]]]]
    /\ v_pc' = "returned"
    /\ UNCHANGED <<v_df, v_rules0, v_shared, v_columns, v_data, v_mapping,
                   analyzerVars, statsVars, detectVars, decimalVars, functionVars>>

(* The frames and rule lists of the model.  A rule of v_rules0 names its      *)
(* columns one by one: [kind, refs]; Rule turns it into the dict the caller   *)
(* passes.                                                                   *)

MaxRules == 2
MaxColumns == 2

ColumnNames == {<<"q">>, <<"n">>, <<"d">>, <<"u", " ", "p">>, <<"u", " ", "p", " ", "x">>}

\* The column a frame of the model has under each name: flags and counts as
\* integers, a native datetime column, and amounts as texts, one of them
\* missing.
ColumnData(name) ==
    CASE name = <<"q">> -> CallerColumn("int64", << <<"1">>, <<"0">> >>)
      [] name = <<"n">> -> CallerColumn("int64", << <<"2">>, <<"3">> >>)
      [] name = <<"d">> ->
           CallerColumn("datetime64",
                        << <<"2", "0", "2", "4", "-", "0", "1", "-", "0", "2">>,
                           <<"2", "0", "2", "4", "-", "0", "1", "-", "0", "3">> >>)
      [] name = <<"u", " ", "p">> ->
           CallerColumn("object", << <<"$", "4">>, NULL >>)
      [] name = <<"u", " ", "p", " ", "x">> ->
           CallerColumn("int64", << <<"2">>, <<"3">> >>)

\* The frames: every ordering of at most MaxColumns of the names.
ColumnOrders ==
    {s \in UNION {[1..n -> ColumnNames] : n \in 1..MaxColumns} :
        \A i, j \in DOMAIN s : s[i] = s[j] => i = j}

\* The text "<left> * <right>"
Product(left, right) == left \o <<" ", "*", " ">> \o right

RuleKinds == {"not_null", "pair", "pair_expression", "pair_expression_id",
              "pair_malformed", "compound_unique"}

Rule(r) ==
    CASE r.kind = "not_null" ->
           [expectation_type |-> "expect_column_values_to_not_be_null",
            kwargs |-> [column |-> r.refs[1]]]
      [] r.kind = "pair" ->
           [expectation_type |-> PairValuesToBeEqual,
            kwargs |-> [column_A |-> r.refs[1], column_B |-> r.refs[2]]]
      [] r.kind = "pair_expression" ->
           [expectation_type |-> PairValuesToBeEqual,
            kwargs |-> [column_A |-> r.refs[1],
                        column_B |-> Product(r.refs[1], r.refs[2])]]
      [] r.kind = "pair_expression_id" ->
           [expectation_type |-> PairValuesToBeEqual,
            rule_id |-> <<"r", "1">>,
            kwargs |-> [column_A |-> r.refs[1],
                        column_B |-> Product(r.refs[1], r.refs[2])],
            meta |-> [decimal_places |-> 2]]
      [] r.kind = "pair_malformed" ->
           [expectation_type |-> PairValuesToBeEqual,
            kwargs |-> [column_A |-> r.refs[1],
                        column_B |-> r.refs[2] \o <<" ", "*">>]]
      [] r.kind = "compound_unique" ->
           [expectation_type |-> "expect_compound_columns_to_be_unique",
            kwargs |-> [column_list |-> r.refs]]

RulesOver(columns) ==
    LET names == {columns[i] : i \in DOMAIN columns}
    IN  ([kind : {"not_null"}, refs : [1..1 -> names]])
        \cup ([kind : RuleKinds \ {"not_null"}, refs : [1..2 -> names]])

InitValidate ==
    /\ v_df \in ColumnOrders
    /\ v_rules0 \in UNION {[1..n -> RulesOver(v_df)] : n \in 1..MaxRules}
    /\ v_rules = [k \in DOMAIN v_rules0 |-> Rule(v_rules0[k])]
    /\ v_shared = TRUE
    /\ v_columns = v_df
    /\ v_data = [col \in {v_df[i] : i \in DOMAIN v_df} |-> ColumnData(col)]
    /\ v_mapping = <<>>
    /\ v_suite = <<>>
    /\ v_result = <<>>
    /\ v_pc = "call"
    /\ InitAnalyzerIdle
    /\ InitStatsIdle
    /\ InitDetectIdle
    /\ InitDecimalIdle
    /\ InitFunctionIdle

NextValidate ==
    \/ NormalizeColumns
    \/ Materialize
    \/ RunSuite

SpecValidate == InitValidate /\ [][NextValidate]_vars

----------------------------------------------------------------------------
(* One call of detect_column_type, data_validator.py lines 251-346 *)

MaxCodes == 2
CodeRepeats == 11

\* The values a column of each dtype is drawn from, in the order they appear
\* in the column.  The integers are codes, and so are the number texts.
CodeValues(dtype) ==
    IF dtype = "int64" THEN << <<"0">>, <<"1">>, <<"2">>, <<"3">> >>
    ELSE IF dtype = "datetime64"
         THEN << <<"2", "0", "2", "4", "-", "0", "1", "-", "0", "2">>, NULL >>
    ELSE << <<"1">>, <<"2">>, <<"7">>, <<"x">>, <<"y">>,
            <<"2", "0", "2", "4", "-", "0", "1", "-", "0", "2">>, NULL >>

\* The column holding each of the chosen values `repeats` times.
CodedColumn(dtype, chosen, repeats) ==
    LET values == CodeValues(dtype)
        run(i) == IF i \in chosen THEN [k \in 1..repeats |-> values[i]] ELSE <<>>
    IN  CallerColumn(dtype, ConcatAll([i \in DOMAIN values |-> run(i)]))

CodedColumns ==
    {CodedColumn(dtype, chosen, repeats) :
        <<dtype, chosen, repeats>> \in
            {<<d, c, r>> \in {"int64", "object", "datetime64"}
                             \X (SUBSET (1..7)) \X {1, CodeRepeats} :
                /\ c # {}
                /\ Cardinality(c) <= MaxCodes
                /\ c \subseteq DOMAIN CodeValues(d)}}

InitColumnType ==
    /\ fn_name = "detect_column_type"
    /\ fn_args \in [column : CodedColumns]
    /\ fn_result = <<>>
    /\ fn_pc = "call"
    /\ InitAnalyzerIdle
    /\ InitStatsIdle
    /\ InitDetectIdle
    /\ InitValidateIdle
    /\ InitDecimalIdle

DetectColumnType ==
    /\ fn_name = "detect_column_type"
    /\ fn_pc = "call"
    /\ fn_result' = detect_column_type(fn_args.column)
    /\ fn_pc' = "returned"
    /\ UNCHANGED <<fn_name, fn_args, analyzerVars, statsVars, detectVars,
                   validateVars, decimalVars>>

NextColumnType == DetectColumnType

SpecColumnType == InitColumnType /\ [][NextColumnType]_vars

----------------------------------------------------------------------------
(* One call of evaluate_expression, data_validator.py lines 130-164 *)

\* The operators written between the two columns of an expression.
ExpressionOperators ==
    {<<"=">>, <<"=", "=">>, <<"!", "=">>, <<"<", "=">>, <<">", "=">>,
     <<"<">>, <<">">>, <<"*">>, <<"+">>}

\* The text "<left> <operator> <right>"
Binary(left, operator, right) == left \o <<" ">> \o operator \o <<" ">> \o right

\* The DataFrame of the given columns.
FrameOf(columns) ==
    [columns |-> columns,
     data    |-> [col \in {columns[i] : i \in DOMAIN columns} |-> ColumnData(col)]]

InitEvaluate ==
    /\ fn_name = "evaluate_expression"
    /\ \E columns \in ColumnOrders :
       \E left, right \in {columns[i] : i \in DOMAIN columns} :
       \E operator \in ExpressionOperators :
           fn_args = [df             |-> FrameOf(columns),
                      expression     |-> Binary(left, operator, right),
                      decimal_places |-> <<>>]
    /\ fn_result = <<>>
    /\ fn_pc = "call"
    /\ InitAnalyzerIdle
    /\ InitStatsIdle
    /\ InitDetectIdle
    /\ InitValidateIdle
    /\ InitDecimalIdle

EvaluateExpression ==
    /\ fn_name = "evaluate_expression"
    /\ fn_pc = "call"
    /\ fn_result' = evaluate_expression(fn_args.df, fn_args.expression,
                                        fn_args.decimal_places)
    /\ fn_pc' = IF fn_result'.raised THEN "raised" ELSE "returned"
    /\ UNCHANGED <<fn_name, fn_args, analyzerVars, statsVars, detectVars,
                   validateVars, decimalVars>>

NextEvaluate == EvaluateExpression

SpecEvaluate == InitEvaluate /\ [][NextEvaluate]_vars

----------------------------------------------------------------------------
(* One call of convert_to_datetime, data_validator.py lines 212-249 *)

MaxCells == 4

NaT == <<"NaT">>
IsoFormat == <<"%", "Y", "-", "%", "m", "-", "%", "d">>
DayFirstFormat == <<"%", "d", "/", "%", "m", "/", "%", "Y">>

\* The text is digits with the separator at the given places.
is_separated(text, separator, places) ==
    /\ Len(text) = 10
    /\ \A i \in DOMAIN text :
          IF i \in places THEN text[i] = separator ELSE text[i] \in DigitChars

\* What strptime reads in a text under a format: the date as year, month and
\* day, or NaT where the text is not of the format.
strptime(text, format) ==
    IF format = IsoFormat /\ is_separated(text, "-", {5, 8})
    THEN SubSeq(text, 1, 4) \o <<"-">> \o SubSeq(text, 6, 7) \o <<"-">> \o SubSeq(text, 9, 10)
    ELSE IF format = DayFirstFormat /\ is_separated(text, "/", {3, 6})
    THEN SubSeq(text, 7, 10) \o <<"-">> \o SubSeq(text, 4, 5) \o <<"-">> \o SubSeq(text, 1, 2)
    ELSE NaT

\* pd.to_datetime(series, format=format, errors='coerce')
to_datetime_format(cells, format) ==
    [i \in DOMAIN cells |-> IF cells[i] = NULL THEN NaT ELSE strptime(cells[i], format)]

\* The format pandas infers from a text, <<>> where it infers none.
guess_datetime_format(text) ==
    IF strptime(text, IsoFormat) # NaT THEN <<IsoFormat>>
    ELSE IF strptime(text, DayFirstFormat) # NaT THEN <<DayFirstFormat>>
    ELSE <<>>

\* The ways pd.to_datetime reads a column without a format: each value on
\* its own, or every value in the format inferred from the first one.  The
\* repository pins no version of pandas, and the versions differ in this.
InferenceModes == {"each_value", "first_value"}

\* pd.to_datetime(series, errors='coerce')
to_datetime_flexible(cells, mode) ==
    LET each(text) ==
            IF guess_datetime_format(text) = <<>> THEN NaT
            ELSE strptime(text, guess_datetime_format(text)[1])
        present == FilterSeq(cells, {cells[i] : i \in DOMAIN cells} \ {NULL})
        guessed == IF present = <<>> THEN <<>> ELSE guess_datetime_format(present[1])
    IN  IF mode = "first_value" /\ guessed # <<>>
        THEN to_datetime_format(cells, guessed[1])
        ELSE [i \in DOMAIN cells |-> IF cells[i] = NULL THEN NaT ELSE each(cells[i])]

\* result.isna().sum()
isna_count(result) == Cardinality({i \in DOMAIN result : result[i] = NaT})

\* A threshold that half of the values reach.
half_nat(result) == isna_count(result) * 2 >= Len(result) /\ result # <<>>

\* Line 229, result.isna().mean() > 0.5; the mean of no value is NaN, which
\* is not above 0.5.
too_many_nat(result) == isna_count(result) * 2 > Len(result)

\* Lines 223-246: the Series returned and whether the warning of line 230
\* was logged; format is <<>> for None.
convert_to_datetime(cells, format, mode) ==
    IF format # <<>>
    THEN LET result == to_datetime_format(cells, format[1])
         IN  IF too_many_nat(result)
             THEN [values |-> to_datetime_flexible(cells, mode), warned |-> TRUE]
             ELSE [values |-> result, warned |-> FALSE]
    ELSE [values |-> to_datetime_flexible(cells, mode), warned |-> FALSE]

\* The texts of a column: a date of each format, a text that is no date, and
\* a missing value.
DateTexts ==
    {<<"2", "0", "2", "4", "-", "0", "1", "-", "0", "2">>,
     <<"1", "3", "/", "0", "1", "/", "2", "0", "2", "4">>,
     <<"x">>, NULL}

InitDatetime ==
    /\ fn_name = "convert_to_datetime"
    /\ fn_args \in [cells  : UNION {[1..n -> DateTexts] : n \in 0..MaxCells},
                    format : {<<>>, <<IsoFormat>>, <<DayFirstFormat>>}]
    /\ fn_result = <<>>
    /\ fn_pc = "call"
    /\ InitAnalyzerIdle
    /\ InitStatsIdle
    /\ InitDetectIdle
    /\ InitValidateIdle
    /\ InitDecimalIdle

ConvertToDatetime ==
    /\ fn_name = "convert_to_datetime"
    /\ fn_pc = "call"
    /\ \E mode \in InferenceModes :
           fn_result' = convert_to_datetime(fn_args.cells, fn_args.format, mode)
    /\ fn_pc' = "returned"
    /\ UNCHANGED <<fn_name, fn_args, analyzerVars, statsVars, detectVars,
                   validateVars, decimalVars>>

NextDatetime == ConvertToDatetime

SpecDatetime == InitDatetime /\ [][NextDatetime]_vars

----------------------------------------------------------------------------
(* Properties *)

Chunked == chunks # <<>>
NoChunkDropped == Len(retained) = Len(chunks)
ChunkRows(i) == chunks[i][2] - chunks[i][1]
RetainedRows == SumSeq([k \in DOMAIN retained |-> ChunkRows(retained[k])])
Columns(df) == {df.columns[i] : i \in DOMAIN df.columns}

\* C1: after a chunked analyze_data_quality call the merged total_rows is the
\* sum of the row counts of the retained chunks, and the row count of the data
\* set when no chunk was dropped.
C1_MergedTotalRowsIsSumOfChunks ==
    (pc = "returned" /\ Chunked) =>
        /\ Get(metrics, "total_rows", 0) = RetainedRows
        /\ (NoChunkDropped => Get(metrics, "total_rows", 0) = RowCount(data))

\* The elements of a set of numbers in ascending order.
RECURSIVE Ascending(_)
Ascending(S) ==
    IF S = {} THEN <<>>
    ELSE LET m == CHOOSE x \in S : \A y \in S : x <= y
         IN  <<m>> \o Ascending(S \ {m})

\* What the call returns when the futures behind order are yielded in that
\* order and retained.
ReturnedFor(order) ==
    detect_quality_issues(
        [analysis_info |-> chunked_analysis_info]
        @@ _combine_chunk_metrics(
              [k \in DOMAIN order |->
                  _process_chunk(prepared(data), chunks[order[k]][1], chunks[order[k]][2])]))

MergedFields == {"schema_info", "column_stats", "total_rows", "total_columns"}
Restrict(m, K) == [k \in K \cap DOMAIN m |-> m[k]]

\* C2: the merged metrics of a chunked call do not depend on the order in which
\* the chunk tasks complete: they equal the metrics of the run in which the
\* same tasks complete in submission order.
C2_MergeIndependentOfCompletionOrder ==
    (pc = "returned" /\ Chunked) =>
        Restrict(metrics, MergedFields)
          = Restrict(ReturnedFor(Ascending({retained[k] : k \in DOMAIN retained})),
                     MergedFields)

HasIssue(m, col, type) ==
    \E k \in DOMAIN Get(m, "data_quality_issues", <<>>) :
        /\ m.data_quality_issues[k].column = col
        /\ m.data_quality_issues[k].issue_type = type

\* C3: profiling a data set with a column of more than 20% nulls reports a
\* high_null_percentage issue for the column, of severity medium at exactly 50%
\* nulls, and the column's stats then say null_percentage 50.0.
C3_HighNullColumnIsReported ==
    (pc = "returned" /\ NoChunkDropped /\ "error" \notin DOMAIN metrics) =>
        \A col \in Columns(data) :
            LET nulls == null_count(data.values[col])
                rows  == RowCount(data)
                col_stats == Get(Get(metrics, "column_stats", EmptyDict), col, EmptyDict)
            IN  nulls * 100 > 20 * rows =>
                  /\ HasIssue(metrics, col, "high_null_percentage")
                  /\ nulls * 2 = rows =>
                        /\ \A k \in DOMAIN metrics.data_quality_issues :
                              (metrics.data_quality_issues[k].column = col
                               /\ metrics.data_quality_issues[k].issue_type = "high_null_percentage")
                              => metrics.data_quality_issues[k].severity = "medium"
                        /\ Get(col_stats, "null_percentage", -1) = 5000

\* C6: in a chunked run without a dropped chunk every merged column has
\* total_rows equal to the row count of the data set and null_count equal to
\* the number of missing values of the column.
C6_MergedColumnCountsAreExact ==
    (pc = "returned" /\ Chunked /\ NoChunkDropped) =>
        \A col \in Columns(data) :
            LET col_stats == Get(Get(metrics, "column_stats", EmptyDict), col, EmptyDict)
            IN  /\ Get(col_stats, "total_rows", -1) = RowCount(data)
                /\ Get(col_stats, "null_count", -1) = null_count(data.values[col])

MissingRows(s) == {i \in DOMAIN s : s[i].v = NULL}
PresentRows(s) == {i \in DOMAIN s : s[i].v # NULL}

\* C7: for a column of at least one row compute_stats returns total_rows = the
\* column length, null_count = the number of missing values and
\* null_percentage = round(null_count / total_rows * 100, 2).
C7_ComputeStatsCountsNulls ==
    (stats_pc = "returned" /\ Len(series) >= 1) =>
        /\ Get(stats, "total_rows", -1) = Len(series)
        /\ Get(stats, "null_count", -1) = Cardinality(MissingRows(series))
        /\ Get(stats, "null_percentage", -1)
             = Round2(Cardinality(MissingRows(series)), Len(series))

\* C8: unique_count is the number of distinct non-null values and
\* unique_percentage is unique_count / (total_rows - null_count) * 100, at most
\* 100; without a non-null value the percentage is omitted or 0.
C8_UniqueCountsNonNullValues ==
    stats_pc = "returned" =>
        LET distinct == {series[i].v : i \in PresentRows(series)}
        IN  IF PresentRows(series) = {}
            THEN Get(stats, "unique_percentage", 0) = 0
            ELSE /\ Get(stats, "unique_count", -1) = Cardinality(distinct)
                 /\ Get(stats, "unique_percentage", -1)
                      = Round2(Cardinality(distinct), Cardinality(PresentRows(series)))
                 /\ Get(stats, "unique_percentage", -1) <= 10000


Finished == {i \in DOMAIN task : task[i] = "finished"}

C4_DroppedAndMerged ==
    (pc = "returned" /\ Chunked) =>
        /\ "error" \notin DOMAIN metrics
        /\ "analysis_info" \in DOMAIN metrics
        /\ \A i \in DOMAIN task : task[i] = "returned_none" => future_result(i) = None
        /\ {retained[k] : k \in DOMAIN retained} = Finished
        /\ Len(retained) = Cardinality(Finished)
        /\ \A i \in DOMAIN attempts : attempts[i] = 1
        /\ metrics.analysis_info.processed_rows
             = SumSeq([k \in DOMAIN Ascending(Finished) |-> ChunkRows(Ascending(Finished)[k])])
        /\ metrics = ReturnedFor(retained)

\* While the futures are collected some step is possible.
C4_NeverStuck ==
    pc = "as_completed" =>
        \/ \E i \in DOMAIN task : can_start(i) \/ is_running(i) \/ can_yield(i)
        \/ all_yielded

\* How far the call has got: grows with every step and is bounded by
\* 3 * Len(chunks) + 2.
Progress ==
    (CASE pc = "call" -> 0 [] pc = "as_completed" -> 1 [] pc = "returned" -> 2 [] OTHER -> 0)
    + SumSeq([i \in DOMAIN task |->
                CASE task[i] = "queued" -> 0 [] task[i] = "running" -> 1 [] OTHER -> 2])
    + Cardinality(yielded)

\* C4: a chunk worker that fails yields None; its chunk is left out of the merge
\* and is not run again, the chunks of all other workers are merged, and the
\* call returns a result without an error field, whichever chunks fail: before
\* the return a step is always possible and every step brings the call nearer
\* to its return.
C4_FailedChunksAreDropped ==
    /\ [](C4_DroppedAndMerged /\ C4_NeverStuck)
    /\ [][Progress' > Progress]_vars

C4_Witness ==
    /\ pc = "returned"
    /\ \E i \in DOMAIN task : task[i] = "returned_none"
    /\ \E i \in DOMAIN task : task[i] = "finished"
    /\ Len(chunks) >= 3

C9_DetectIsIdempotent ==
    dq_runs >= 1 =>
        LET issues == dq_metrics.data_quality_issues
        IN  /\ issues = dq_first
            /\ \A j, k \in DOMAIN issues :
                  (issues[j].issue_type = issues[k].issue_type
                   /\ issues[j].column = issues[k].column) => j = k

C9_Witness ==
    /\ dq_runs >= 2
    /\ Len(dq_metrics.data_quality_issues) >= 4
    /\ \E k \in DOMAIN dq_metrics.data_quality_issues :
          dq_metrics.data_quality_issues[k].column = "d"


\* The rule r of v_rules0 with every column it names renamed.
Renamed(r) == [r EXCEPT !.refs = [i \in DOMAIN r.refs |-> replace_spaces(r.refs[i])]]

\* The plain column references of a rule dict.
PlainReferences(rule) ==
    LET kwargs == rule["kwargs"]
    IN  {kwargs[k] : k \in {"column", "column_A"} \cap DOMAIN kwargs}
        \cup (IF "column_B" \in DOMAIN kwargs /\ ~is_expression(kwargs["column_B"])
              THEN {kwargs["column_B"]} ELSE {})
        \cup (IF "column_list" \in DOMAIN kwargs
              THEN {kwargs["column_list"][i] : i \in DOMAIN kwargs["column_list"]}
              ELSE {})

\* C10: after the normalization every column reference of every rule, the
\* columns named in an expression included, names the renamed column, and
\* every plain reference is a column of the normalized frame.
C10_RulesFollowRenamedColumns ==
    v_pc = "normalized" =>
        \A k \in DOMAIN v_rules :
            /\ v_rules[k]["kwargs"] = Rule(Renamed(v_rules0[k]))["kwargs"]
            /\ PlainReferences(v_rules[k]) \subseteq {v_columns[i] : i \in DOMAIN v_columns}

\* C18: analyze_data_quality returns whatever fails inside it, and what it
\* returns after a failure has an error field and an analysis_info with the row
\* count of the data set, processed_rows 0 and error_occurred true.
C18_FailureIsReturnedAsErrorObject ==
    /\ [][(AnalyzeWholeRaise \/ SubmitRaise) =>
             /\ pc' = "returned"
             /\ metrics'.error \in Exceptions
             /\ metrics'.analysis_info =
                  [total_rows |-> RowCount(data), processed_rows |-> 0,
                   error_occurred |-> TRUE]]_vars
    /\ []((pc = "returned" /\ "error" \in DOMAIN metrics) =>
             /\ metrics.analysis_info.total_rows = RowCount(data)
             /\ metrics.analysis_info.processed_rows = 0
             /\ metrics.analysis_info.error_occurred)

C18_Witness ==
    /\ pc = "returned"
    /\ "error" \in DOMAIN metrics
    /\ metrics.analysis_info.total_rows > MinChunkSize

\* C19: a data set of more rows than the constructor's chunk_size is processed
\* in chunks of that many rows.
C19_ConfiguredChunkSizeIsUsed ==
    (pc # "call" /\ pc # "idle" /\ RowCount(data) > self_chunk_size) =>
        /\ Chunked
        /\ chunk_size = self_chunk_size
        /\ \A i \in DOMAIN chunks : ChunkRows(i) <= self_chunk_size
        /\ \A i \in 1..(Len(chunks) - 1) : ChunkRows(i) = self_chunk_size

C17_DecimalOfEveryWriting ==
    dec_pc = "returned" =>
        /\ Len(dec_result) = Len(dec_written)
        /\ \A i \in DOMAIN dec_written :
              dec_result[i] = IF dec_written[i].num \in NotNumbers THEN NaN
                              ELSE Meant(dec_written[i])


\* The columns of the local df, and of the DataFrame the caller holds.
LocalColumns == {v_columns[i] : i \in DOMAIN v_columns}
CallerColumns == IF v_shared THEN v_columns ELSE v_df
ExpressionKinds == {"pair_expression", "pair_expression_id"}
PairKinds == ExpressionKinds \cup {"pair", "pair_malformed"}

\* C11: in the suite validate_data runs, the column_B of a pair rule whose
\* column_B was an expression is a column of the frame, the one under which
\* the evaluated expression was stored, whether the rule has a rule_id or not.
C11_SuiteNamesTheStoredColumn ==
    v_pc = "returned" =>
        \A k \in DOMAIN v_rules0 :
            v_rules0[k].kind \in ExpressionKinds =>
                /\ v_suite[k].kwargs.column_B \in LocalColumns
                /\ v_data[v_suite[k].kwargs.column_B].made_by = "evaluate_expression"

\* C12: after the materialization the column_A of a pair rule names the
\* __datetime_ version of its column when detect_column_type finds the column
\* a datetime, and the __decimal_ version otherwise, as a plain column_B does.
C12_ColumnAIsCoercedByItsType ==
    v_pc = "materialized" =>
        \A k \in DOMAIN v_rules0 :
            v_rules0[k].kind \in PairKinds =>
                LET base_type == detect_column_type(ColumnData(v_rules0[k].refs[1])).base_type
                    prefix == IF base_type = "datetime" THEN DatetimePrefix ELSE DecimalPrefix
                IN  /\ v_rules[k].kwargs.column_A = prefix \o replace_spaces(v_rules0[k].refs[1])
                    /\ v_rules[k].kwargs.column_A \in LocalColumns

\* C13: a rule whose expression is malformed does not make validate_data
\* raise: the call returns a report with an entry for every rule.
C13_MalformedExpressionFailsOnlyItsRule ==
    (\E k \in DOMAIN v_rules0 : v_rules0[k].kind = "pair_malformed") =>
        /\ v_pc # "raised"
        /\ v_pc = "returned" => Len(v_result.validation_result) = Len(v_rules0)

\* C14: after validate_data returned, the caller's DataFrame has the columns
\* it had before the call, in the same order.
C14_CallerFrameKeepsItsColumns ==
    v_pc = "returned" => CallerColumns = v_df

\* C15: after validate_data returned, every rule of the caller's list has the
\* expectation_type and the kwargs it was passed with.
C15_RulesKeepTypeAndKwargs ==
    v_pc = "returned" =>
        \A k \in DOMAIN v_rules0 :
            /\ v_rules[k].expectation_type = Rule(v_rules0[k]).expectation_type
            /\ v_rules[k].kwargs = Rule(v_rules0[k]).kwargs

\* C16: evaluating the product of two numeric columns adds one column to the
\* frame, the result (the converted column_A of the rule is not counted), and
\* leaves every original column as it was.
C16_ExpressionAddsOneColumn ==
    (/\ v_pc = "materialized"
     /\ Len(v_rules0) = 1
     /\ v_rules0[1].kind \in ExpressionKinds
     /\ v_rules0[1].refs[1] # v_rules0[1].refs[2]
     /\ \A i \in 1..2 : ColumnData(v_rules0[1].refs[i]).dtype = "int64") =>
        LET originals == {mapping_get(v_mapping, v_df[i]) : i \in DOMAIN v_df}
            added == LocalColumns \ (originals \cup {v_rules[1].kwargs.column_A})
        IN  /\ Cardinality(added) = 1
            /\ \A col \in added : v_data[col].made_by = "evaluate_expression"
            /\ \A i \in DOMAIN v_df :
                  v_data[mapping_get(v_mapping, v_df[i])] = ColumnData(v_df[i])


\* The elements of a list
Elements(s) == {s[i] : i \in DOMAIN s}

\* C21: after a chunked call that retained a chunk, every bucket of the merged
\* schema_info holds, without duplicates, the columns that some retained chunk
\* put in that bucket.
C21_MergedSchemaIsUnionOfChunks ==
    (pc = "returned" /\ Chunked /\ retained # <<>> /\ "error" \notin DOMAIN metrics) =>
        \A cat \in schema_categories :
            LET merged == metrics.schema_info[cat]
            IN  /\ Elements(merged) =
                      UNION {Elements(chunk_metrics[k].schema_info[cat]) :
                                k \in DOMAIN chunk_metrics}
                /\ \A i, j \in DOMAIN merged : merged[i] = merged[j] => i = j

\* C22: the merge happens only when every submitted chunk task has completed,
\* and a step of a chunk task leaves the merged metrics, the list of chunk
\* results, the counters of the calling thread and the data set as they were.
C22_MergeAfterEveryTask ==
    /\ [][CombineAndReturn =>
             \A i \in DOMAIN task : task[i] \in {"finished", "returned_none"}]_vars
    /\ [][(\E i \in DOMAIN task : WorkerStart(i) \/ WorkerReturn(i) \/ WorkerRaise(i)) =>
             UNCHANGED <<metrics, chunk_metrics, retained, processed_rows, data>>]_vars
    /\ [](pc # "returned" => metrics = EmptyDict)

C22_Witness ==
    /\ pc = "returned"
    /\ Len(chunks) = 3
    /\ Len(retained) = 3
    /\ retained[1] = 3
    /\ "column_stats" \in DOMAIN metrics

\* C30: after a chunked call, analysis_info.processed_rows is the number of
\* rows of the retained chunks; it is at most analysis_info.total_rows, the
\* row count of the data set, and equal to it exactly when no chunk was
\* dropped.
C30_ProcessedRowsCountRetainedChunks ==
    (pc = "returned" /\ Chunked /\ "error" \notin DOMAIN metrics) =>
        LET info == metrics.analysis_info
        IN  /\ info.processed_rows = RetainedRows
            /\ info.total_rows = RowCount(data)
            /\ info.processed_rows <= info.total_rows
            /\ info.processed_rows = info.total_rows <=> NoChunkDropped

C30_Witness ==
    /\ pc = "returned"
    /\ Len(chunks) = 3
    /\ retained = <<3, 1>>
    /\ metrics.analysis_info.processed_rows < metrics.analysis_info.total_rows

\* C23: after detect_quality_issues ran on metrics with total_rows > 0, a column
\* has a high_null_percentage issue exactly when its nulls are more than 20% of
\* total_rows, and the issue is high exactly when they are more than 50%,
\* medium otherwise.  (null_count / total_rows) * 100 in floating point
\* compares with 20 and 50 as the integers do.
C23_HighNullThresholdsAreStrict ==
    (dq_runs >= 1 /\ dq_metrics.total_rows > 0) =>
        \A col \in DOMAIN dq_metrics.column_stats :
            LET nulls  == dq_metrics.column_stats[col].null_count
                rows   == dq_metrics.total_rows
                issues == dq_metrics.data_quality_issues
                found  == {k \in DOMAIN issues :
                              /\ issues[k].column = col
                              /\ issues[k].issue_type = "high_null_percentage"}
            IN  /\ found # {} <=> nulls * 100 > 20 * rows
                /\ \A k \in found :
                      issues[k].severity =
                          IF nulls * 100 > 50 * rows THEN "high" ELSE "medium"

C23_Witness ==
    /\ dq_runs >= 1
    /\ dq_metrics.total_rows = DetectRows
    /\ dq_metrics.column_stats["c"].null_count * 2 = DetectRows
    /\ HasIssue(dq_metrics, "c", "high_null_percentage")
    /\ "d" \in DOMAIN dq_metrics.column_stats


\* C24: after the normalization the expression of a rule names each of its
\* columns by the column's new name, and nothing else of it is rewritten, also
\* when one renamed column's name begins another's, in either column order.
C24_ExpressionNamesWholeColumns ==
    v_pc = "normalized" =>
        \A k \in DOMAIN v_rules0 :
            v_rules0[k].kind \in ExpressionKinds =>
                v_rules[k].kwargs.column_B =
                    Product(replace_spaces(v_rules0[k].refs[1]),
                            replace_spaces(v_rules0[k].refs[2]))

\* C29: in the suite validate_data runs, two different expression rules have
\* different result columns, with or without rule_id.
C29_ExpressionRulesHaveOwnColumns ==
    v_pc = "returned" =>
        \A j, k \in DOMAIN v_rules0 :
            (/\ j # k
             /\ v_rules0[j].kind \in ExpressionKinds
             /\ v_rules0[k].kind \in ExpressionKinds
             /\ v_rules0[j] # v_rules0[k]) =>
                v_suite[j].kwargs.column_B # v_suite[k].kwargs.column_B

\* C25: every entry of a numeric version preprocess_expression made of a
\* column is a number, never a null.
C25_NumericVersionsHaveNoNulls ==
    v_pc \in {"materialized", "raised", "returned"} =>
        \A col \in LocalColumns :
            v_data[col].made_by = "preprocess_expression" =>
                \A i \in DOMAIN v_data[col].cells : ~v_data[col].cells[i].nan

\* The values of a column that are not null.
Samples(column) ==
    {column.cells[i] : i \in DOMAIN column.cells} \ {NULL}

\* C27: detect_column_type tries native datetime, boolean tokens, datetime
\* parsing, numbers, low cardinality and string in that order, so that a
\* column of few distinct numeric codes, many times each, is numeric and not
\* categorical, whatever the codes are.
C27_NumericCodesAreNumeric ==
    (fn_name = "detect_column_type" /\ fn_pc = "returned") =>
        LET column == fn_args.column
            codes == Samples(column)
        IN  /\ (codes # {} /\ column.dtype = "datetime64")
                   => fn_result.base_type = "datetime"
            /\ (/\ codes # {}
                /\ column.dtype # "datetime64"
                /\ \A val \in codes : ~to_numeric(val).nan
                /\ Cardinality(codes) * CodeRepeats <= Len(column.cells))
                   => fn_result.base_type = "numeric"

\* The comparison operators of an expression, in order: the tokens made of
\* the characters of comparison operators.
Comparisons(text) ==
    LET tokens == tokens_of(text)
    IN  FilterSeq(tokens, {tokens[k] : k \in DOMAIN tokens}
                              \cap (ComparisonOperators \cup {<<"=">>}))

\* C26: evaluate_expression evaluates an expression holding = as the one
\* holding == in its place, and evaluates ==, !=, <= and >= as they are
\* written (the columns being ones whose names hold no space).
C26_OnlySingleEqualsIsRewritten ==
    (/\ fn_name = "evaluate_expression"
     /\ fn_pc \in {"returned", "raised"}
     /\ \A i \in DOMAIN fn_args.df.columns : ~has_space(fn_args.df.columns[i])) =>
        LET written == Comparisons(fn_args.expression)
            expected == [k \in DOMAIN written |->
                            IF written[k] = <<"=">> THEN <<"=", "=">> ELSE written[k]]
        IN  /\ fn_pc = "returned"
            /\ Comparisons(fn_result.result.source) = expected

\* The values of a column the format does not read, the missing ones among
\* them: those whose entry of the format-parsed result is null.
FailedToParse(cells, format) ==
    {i \in DOMAIN cells : cells[i] = NULL \/ strptime(cells[i], format) = NaT}

\* C28: given a format, convert_to_datetime returns the flexible parse of the
\* whole column if and only if strictly more than half of the values failed
\* to parse under the format, and otherwise the format-parsed result, nulls
\* for the failures.
C28_FallbackOnlyAboveHalfFailed ==
    (fn_name = "convert_to_datetime" /\ fn_pc = "returned" /\ fn_args.format # <<>>) =>
        LET cells == fn_args.cells
            format == fn_args.format[1]
            failed == FailedToParse(cells, format)
        IN  IF Cardinality(failed) * 2 > Len(cells)
            THEN /\ fn_result.warned
                 /\ \E mode \in InferenceModes :
                        fn_result.values = to_datetime_flexible(cells, mode)
            ELSE /\ ~fn_result.warned
                 /\ \A i \in DOMAIN cells :
                        fn_result.values[i] =
                            IF i \in failed THEN NaT ELSE strptime(cells[i], format)

\* Exactly half of the values failed, one of them a date of another format
\* that flexible parsing would have read, and the result is the format's.
C28_Witness ==
    /\ fn_name = "convert_to_datetime"
    /\ fn_pc = "returned"
    /\ fn_args.format = <<IsoFormat>>
    /\ Len(fn_args.cells) = 4
    /\ Cardinality(FailedToParse(fn_args.cells, IsoFormat)) = 2
    /\ \E i \in DOMAIN fn_args.cells :
          /\ strptime(fn_args.cells[i], DayFirstFormat) # NaT
          /\ fn_result.values[i] = NaT
    /\ ~fn_result.warned

====
